---- MODULE Spec2Model ----
(***************************************************************************)
(* The shared-state mutation core of the canvas page (src/app/page.tsx):   *)
(* the document held by useCoAgent, the render-time snapshot the action    *)
(* handlers read (viewState), the creation throttle (lastCreationRef) and  *)
(* the command handlers registered with useCopilotAction.                  *)
(*                                                                         *)
(* A JavaScript string is a sequence of one-character strings, so that     *)
(* trim, padStart, parseInt and concatenation are computed, not assumed.   *)
(* A value of an item's data is tagged with its JavaScript type, because   *)
(* the handlers probe the data structurally (hasOwnProperty, typeof) and   *)
(* can store a value of another type under an existing key.                *)
(***************************************************************************)
EXTENDS Integers, Sequences, FiniteSets, TLC

VARIABLES
  state,            \* the document: useCoAgent's state
  viewState,        \* the snapshot computed by the last render
  cachedStateRef,   \* cachedStateRef.current: the last non-empty document rendered
  lastCreationRef,  \* lastCreationRef.current: <<>> for null, else <<record>>
  lastChecklistCreationRef, \* lastChecklistCreationRef.current, keyed by item id
  lastMetricCreationRef,    \* lastMetricCreationRef.current, keyed by item id
  inflight,         \* what awaits an answer: a service, a file reader, the human
  now,              \* Date.now()
  pending,          \* handler calls and UI events since the last render
  edits,            \* field-setting commands the behaviour may still run
  allocated,        \* the ids addItem has assigned, in order
  player,           \* the story viewer: its state and the callbacks it has scheduled
  call              \* the last command: its name, arguments and return value

\* What a render produces.
view == <<viewState, cachedStateRef>>
\* The refs of the creation throttles.
refs == <<lastCreationRef, lastChecklistCreationRef, lastMetricCreationRef>>

vars == <<state, view, refs, inflight, now, pending, edits, allocated, player, call>>

---------------------------------------------------------------------------
(* Bounds of the model.                                                    *)

\* Items ever created (the guard of every creating step).
MaxCreated == 2
\* The clock stops here.
MaxNow == 5000
\* Handler calls and UI events that can run between two renders.
MaxPending == 3
\* Field-setting commands in one behaviour.
MaxEdits == 1
\* Field-setting commands in one behaviour that follows the cards of one type.
MaxCardEdits == 4
\* generateCharacterImage calls awaiting the service at one time.
MaxInflight == 1

\* createItem's throttle window, in milliseconds.
ThrottleWindowMs == 5000
\* The clock advances by half a throttle window.
ClockStep == ThrottleWindowMs \div 2

---------------------------------------------------------------------------
(* JavaScript strings.                                                     *)

IsWhitespace(c) == c \in {" ", "\n"}

RECURSIVE TrimStart(_)
TrimStart(s) ==
  IF s # <<>> /\ IsWhitespace(Head(s)) THEN TrimStart(Tail(s)) ELSE s

RECURSIVE TrimEnd(_)
TrimEnd(s) ==
  IF s # <<>> /\ IsWhitespace(s[Len(s)])
  THEN TrimEnd(SubSeq(s, 1, Len(s) - 1))
  ELSE s

\* String.prototype.trim
Trim(s) == TrimEnd(TrimStart(s))

DigitChars == <<"0", "1", "2", "3", "4", "5", "6", "7", "8", "9">>

IsDigit(c) == \E d \in 1..10 : DigitChars[d] = c

DigitValue(c) == (CHOOSE d \in 1..10 : DigitChars[d] = c) - 1

\* String(n) for an integer n >= 0
RECURSIVE NumberToString(_)
NumberToString(n) ==
  IF n < 10
  THEN <<DigitChars[n + 1]>>
  ELSE NumberToString(n \div 10) \o <<DigitChars[(n % 10) + 1]>>

\* String.prototype.padStart with a one-character pad string
RECURSIVE PadStart(_, _, _)
PadStart(s, targetLength, padChar) ==
  IF Len(s) >= targetLength THEN s ELSE PadStart(<<padChar>> \o s, targetLength, padChar)

\* The longest prefix of s made of decimal digits.
RECURSIVE DigitPrefix(_)
DigitPrefix(s) ==
  IF s # <<>> /\ IsDigit(Head(s)) THEN <<Head(s)>> \o DigitPrefix(Tail(s)) ELSE <<>>

RECURSIVE DigitsValue(_)
DigitsValue(s) ==
  IF s = <<>> THEN 0 ELSE 10 * DigitsValue(SubSeq(s, 1, Len(s) - 1)) + DigitValue(s[Len(s)])

\* Number.parseInt(s, 10) of an unsigned string: leading whitespace is skipped,
\* the digits up to the first other character are read, and no digit at all
\* gives NaN (finite = FALSE).
ParseInt(s) ==
  LET digits == DigitPrefix(TrimStart(s))
  IN  [finite |-> digits # <<>>, value |-> DigitsValue(digits)]

Max(a, b) == IF a >= b THEN a ELSE b

---------------------------------------------------------------------------
(* Tagged values of an item's data.                                        *)

Str(s) == [t |-> "string", v |-> s]
\* An array of strings, and an array of objects.
Arr(a) == [t |-> "array", v |-> a]
Objs(a) == [t |-> "objects", v |-> a]
Num(n) == [t |-> "number", v |-> n]
Undefined == [t |-> "undefined", v |-> <<>>]
Thrown == [t |-> "thrown", v |-> <<>>]

\* Object.prototype.hasOwnProperty.call(data, key)
HasOwnProperty(data, key) == key \in DOMAIN data

\* typeof data[key] === "string"
IsStringField(data, key) == key \in DOMAIN data /\ data[key].t = "string"

\* { ...data, [key]: value }
Spread(data, key, value) ==
  [k \in (DOMAIN data) \cup {key} |-> IF k = key THEN value ELSE data[k]]

---------------------------------------------------------------------------
(* The document.                                                           *)

CardTypes == {"project", "entity", "note", "chart", "character", "story"}

initialState ==
  [items |-> <<>>,
   globalTitle |-> <<>>,
   globalDescription |-> <<>>,
   lastAction |-> <<>>,
   itemsCreated |-> 0]

isNonEmptyAgentState(s) ==
  \/ s.items # <<>>
  \/ s.globalTitle # <<>>
  \/ s.globalDescription # <<>>

Adventurous == <<"a", "d", "v", "e", "n", "t", "u", "r", "o", "u", "s">>

Tag1 == <<"T", "a", "g", " ", "1">>

defaultDataFor(type) ==
  CASE type = "character" ->
         [name |-> Str(<<"N", "e", "w", " ", "C", "h", "a", "r", "a", "c", "t", "e", "r">>),
          description |->
            Str(<<"A", " ", "c", "h", "a", "r", "a", "c", "t", "e", "r", " ",
                  "w", "a", "i", "t", "i", "n", "g", " ", "t", "o", " ", "b", "e", " ",
                  "d", "e", "s", "c", "r", "i", "b", "e", "d", ".", ".", ".">>),
          traits |-> Arr(<<Adventurous>>),
          image_url |-> Str(<<>>),
          source_comic |-> Str(<<>>)]
    [] type = "story" ->
         [title |-> Str(<<>>), slides |-> Objs(<<>>)]
    [] type = "project" ->
         [field1 |-> Str(<<>>), field2 |-> Str(<<>>), field3 |-> Str(<<>>),
          field4 |-> Objs(<<>>), field4_id |-> Num(0)]
    [] type = "entity" ->
         [field1 |-> Str(<<>>), field2 |-> Str(<<>>), field3 |-> Arr(<<>>),
          field3_options |->
            Arr(<<Tag1, <<"T", "a", "g", " ", "2">>, <<"T", "a", "g", " ", "3">>>>)]
    [] type = "note" -> [field1 |-> Str(<<>>)]
    [] type = "chart" -> [field1 |-> Objs(<<>>), field1_id |-> Num(0)]
    [] OTHER -> [field1 |-> Str(<<>>)]

CreatedPrefix == <<"c", "r", "e", "a", "t", "e", "d", ":">>
DeletedPrefix == <<"d", "e", "l", "e", "t", "e", "d", ":">>
NotFoundPrefix == <<"n", "o", "t", "_", "f", "o", "u", "n", "d", ":">>

\* items.some((p) => p.id === itemId)
HasItem(items, itemId) == \E i \in DOMAIN items : items[i].id = itemId

\* items.filter((p) => p.id !== itemId)
RECURSIVE WithoutItem(_, _)
WithoutItem(items, itemId) ==
  IF items = <<>> THEN <<>>
  ELSE IF Head(items).id = itemId
       THEN WithoutItem(Tail(items), itemId)
       ELSE <<Head(items)>> \o WithoutItem(Tail(items), itemId)

\* An updateItem that moves the item it updates to the end of items
updateItemMovesItem(base, itemId, updates) ==
  [base EXCEPT !.items =
     WithoutItem(base.items, itemId)
     \o [i \in 1..(Len(base.items) - Len(WithoutItem(base.items, itemId))) |->
           LET item == base.items[CHOOSE j \in DOMAIN base.items :
                                     base.items[j].id = itemId]
           IN  [k \in DOMAIN item |->
                  IF k \in DOMAIN updates THEN updates[k] ELSE item[k]]]]

\* updateItem's state updater: updates is a record of the Item fields to replace
updateItem(base, itemId, updates) ==
  [base EXCEPT !.items =
     [i \in DOMAIN base.items |->
        IF base.items[i].id = itemId
        THEN [k \in DOMAIN base.items[i] |->
                IF k \in DOMAIN updates THEN updates[k] ELSE base.items[i][k]]
        ELSE base.items[i]]]

\* An updateItemData that runs the updater on every item
updateItemDataOfEveryItem(base, itemId, updated) ==
  [base EXCEPT !.items =
     [i \in DOMAIN base.items |-> [base.items[i] EXCEPT !.data = updated[i]]]]

\* updateItemData's state updater: updated[i] is updater(items[i].data), and
\* it is read only for the items whose id is itemId
updateItemData(base, itemId, updated) ==
  [base EXCEPT !.items =
     [i \in DOMAIN base.items |->
        IF base.items[i].id = itemId
        THEN [base.items[i] EXCEPT !.data = updated[i]]
        ELSE base.items[i]]]

\* A deleteItem that records every deletion as one that found its item
deleteItemRecordsDeleted(base, itemId) ==
  [base EXCEPT
     !.items = WithoutItem(base.items, itemId),
     !.lastAction = DeletedPrefix \o itemId]

\* deleteItem's state updater
deleteItem(base, itemId) ==
  [base EXCEPT
     !.items = WithoutItem(base.items, itemId),
     !.lastAction = IF HasItem(base.items, itemId)
                    THEN DeletedPrefix \o itemId
                    ELSE NotFoundPrefix \o itemId]

\* items.reduce over Number.parseInt(String(it.id ?? "0"), 10), from 0
RECURSIVE MaxExisting(_)
MaxExisting(items) ==
  IF items = <<>> THEN 0
  ELSE LET rest == MaxExisting(SubSeq(items, 1, Len(items) - 1))
           parsed == ParseInt(items[Len(items)].id)
       IN  IF parsed.finite THEN Max(rest, parsed.value) ELSE rest

\* A next number that counts the items of the document
NextNumberOfCount(base) == Len(base.items) + 1

NextNumber(base) == Max(base.itemsCreated, MaxExisting(base.items)) + 1

\* createdId, as addItem's updater assigns it
CreatedId(base) == PadStart(NumberToString(NextNumber(base)), 4, "0")

\* An addItem whose counter is the number of items
addItemCountsItems(base, type, name) ==
  [base EXCEPT
     !.items = Append(base.items,
                      [id |-> CreatedId(base),
                       type |-> type,
                       name |-> Trim(name),
                       subtitle |-> <<>>,
                       data |-> defaultDataFor(type)]),
     !.itemsCreated = Len(base.items) + 1,
     !.lastAction = CreatedPrefix \o CreatedId(base)]

\* addItem's state updater; name && name.trim() ? name.trim() : ""
addItem(base, type, name) ==
  [base EXCEPT
     !.items = Append(base.items,
                      [id |-> CreatedId(base),
                       type |-> type,
                       name |-> Trim(name),
                       subtitle |-> <<>>,
                       data |-> defaultDataFor(type)]),
     !.itemsCreated = NextNumber(base),
     !.lastAction = CreatedPrefix \o CreatedId(base)]

---------------------------------------------------------------------------
(* The component: rendering, the clock, and the handlers of items.         *)

NoCall ==
  [n |-> 0, step |-> 0, ts |-> 0, name |-> "", type |-> "", arg |-> <<>>,
   itemId |-> <<>>, path |-> "", ret |-> Undefined, opts |-> <<>>]

Id0001 == <<"0", "0", "0", "1">>

\* How far the last commands follow the scenario: create a note named "" in
\* the initial document, set its field1 to "hello", delete it, delete it again.
\* 0 when they do not.
ScenarioStep(name, type, arg, itemId) ==
  CASE /\ call.step = 0 /\ state = initialState /\ lastCreationRef = <<>>
       /\ name = "createItem" /\ type = "note" /\ arg = <<>> -> 1
    [] /\ call.step = 1
       /\ name = "setNoteField1" /\ arg = <<"h", "e", "l", "l", "o">> /\ itemId = Id0001 -> 2
    [] /\ call.step = 2 /\ name = "deleteItem" /\ itemId = Id0001 -> 3
    [] /\ call.step = 3 /\ name = "deleteItem" /\ itemId = Id0001 -> 4
    [] OTHER -> 0

\* A handler has run: when, its name, its arguments (opts: the optional ones),
\* the branch it took and what it returned. n alternates, so that a repeated
\* call is a step of its own.
CalledWith(name, type, arg, itemId, path, ret, opts) ==
  call' = [n |-> 1 - call.n, step |-> ScenarioStep(name, type, arg, itemId),
           ts |-> now, name |-> name, type |-> type, arg |-> arg,
           itemId |-> itemId, path |-> path, ret |-> ret, opts |-> opts]

---------------------------------------------------------------------------
(* The story viewer: StoryView, which the page shows over the stories of   *)
(* the last render. Indices count from 0, as in the source.                *)

\* Callbacks the viewer may have scheduled at one time.
MaxScheduled == 1

\* The viewer is not shown
StoryViewHidden ==
  [shown |-> FALSE, selectedStoryIndex |-> 0, currentSlideIndex |-> 0,
   isAutoPlay |-> FALSE, isPlaying |-> FALSE, scheduled |-> {}]

\* stories: (viewState.items ?? []).filter(item => item.type === "story")
storyItems(items) == SelectSeq(items, LAMBDA item : item.type = "story")

\* slides of the render that shows story index: storyData?.slides || []
slidesAt(stories, index) ==
  IF index + 1 \in DOMAIN stories /\ HasOwnProperty(stories[index + 1].data, "slides")
  THEN stories[index + 1].data.slides.v
  ELSE <<>>

\* What the auto-play effect depends on: the two indices, isAutoPlay,
\* currentSlide?.audioUrl, currentSlide?.caption and storyData?.title
autoPlayDeps(stories, p) ==
  LET slides == slidesAt(stories, p.selectedStoryIndex)
      has == p.currentSlideIndex + 1 \in DOMAIN slides
      data == stories[p.selectedStoryIndex + 1].data
  IN  [currentSlideIndex |-> p.currentSlideIndex,
       isAutoPlay |-> p.isAutoPlay,
       audioUrl |-> IF has THEN slides[p.currentSlideIndex + 1].audioUrl ELSE <<>>,
       caption |-> IF has THEN slides[p.currentSlideIndex + 1].caption ELSE <<>>,
       title |-> IF p.selectedStoryIndex + 1 \in DOMAIN stories
                    /\ IsStringField(data, "title")
                 THEN data.title.v ELSE <<>>,
       selectedStoryIndex |-> p.selectedStoryIndex]

\* The auto-play effect runs again: the cleanup of its last run clears the
\* duration timer, and nothing else. With auto-play on, a slide with audio
\* starts the audio element; else a caption or a title starts a narration,
\* speakText(text, true), whose Audio object is not in the document; else a
\* timer of the slide's duration is set. Each callback keeps the nextSlide
\* of this render, and so these indices.
autoPlayEffect(stories, p) ==
  LET deps == autoPlayDeps(stories, p)
      kept == {t \in p.scheduled : t.kind # "duration"}
      Here(kind) == [kind |-> kind,
                     selectedStoryIndex |-> p.selectedStoryIndex,
                     currentSlideIndex |-> p.currentSlideIndex]
  IN  IF ~p.isAutoPlay THEN [p EXCEPT !.scheduled = kept]
      ELSE IF deps.audioUrl # <<>>
      THEN [p EXCEPT !.scheduled = kept, !.isPlaying = TRUE]
      ELSE IF deps.caption # <<>> \/ deps.title # <<>>
      THEN [p EXCEPT !.scheduled = kept \cup {Here("narration")}]
      ELSE [p EXCEPT !.scheduled = kept \cup {Here("duration")}]

\* The page has rendered: was is the viewer of the last render over the
\* stories before, p the viewer now over stories. With no story the page
\* hides the viewer, and what it had scheduled finds it unmounted; the
\* effect runs when one of its dependencies has changed.
Rendered(before, was, stories, p) ==
  IF ~p.shown \/ stories = <<>> THEN StoryViewHidden
  ELSE IF was.shown /\ before # <<>>
          /\ autoPlayDeps(before, was) = autoPlayDeps(stories, p) THEN p
  ELSE autoPlayEffect(stories, p)

---------------------------------------------------------------------------
(* The page: mounted, rendered, and the clock.                             *)

\* The page is mounted, and the behaviour may run budget field-setting commands.
Mounted(budget) ==
  /\ state = initialState
  /\ cachedStateRef = initialState
  /\ viewState = initialState
  /\ lastCreationRef = <<>>
  /\ lastChecklistCreationRef = <<>>
  /\ lastMetricCreationRef = <<>>
  /\ inflight = <<>>
  /\ now = 0
  /\ pending = 0
  /\ edits = budget
  /\ allocated = <<>>
  /\ player = StoryViewHidden
  /\ call = NoCall

Init == Mounted(MaxEdits)

\* The page is mounted, for a behaviour that follows the cards of one type.
InitCard == Mounted(MaxCardEdits)

\* A render: the effect stores a non-empty document in cachedStateRef, and
\* viewState is the document when it is non-empty, else the cached one.
Render ==
  /\ pending > 0
  /\ viewState' = IF isNonEmptyAgentState(state) THEN state ELSE cachedStateRef
  /\ cachedStateRef' = IF isNonEmptyAgentState(state) THEN state ELSE cachedStateRef
  /\ pending' = 0
  /\ player' = Rendered(storyItems(viewState.items), player,
                        storyItems(viewState'.items), player)
  /\ UNCHANGED <<state, refs, inflight, now, edits, allocated, call>>

\* Time passes. A render is scheduled as soon as the document changes and
\* completes long before half a throttle window has passed.
Tick ==
  /\ pending = 0
  /\ now + ClockStep <= MaxNow
  /\ now' = now + ClockStep
  /\ UNCHANGED <<state, view, refs, inflight, pending, edits, allocated, player, call>>

\* A handler or a UI callback runs between two renders.
Runs ==
  /\ pending < MaxPending
  /\ pending' = pending + 1
  /\ UNCHANGED <<view, now, player>>

\* A command that sets a field runs: one of the edits the model follows.
Edits ==
  /\ Runs
  /\ edits > 0
  /\ edits' = edits - 1

\* The first item of items with this type and trimmed name: its index, or 0.
FindExisting(items, t, normalized) ==
  LET matches == {i \in DOMAIN items :
                    items[i].type = t /\ Trim(items[i].name) = normalized}
  IN  IF matches = {} THEN 0
      ELSE CHOOSE i \in matches : \A j \in matches : i <= j

\* A throttle whose window includes its end
RecentCreationInclusive(t, normalized) ==
  /\ lastCreationRef # <<>>
  /\ lastCreationRef[1].type = t
  /\ lastCreationRef[1].name = normalized
  /\ now - lastCreationRef[1].ts <= ThrottleWindowMs

\* A throttle that looks at the time of the last creation only
RecentCreationByTime(t, normalized) ==
  /\ lastCreationRef # <<>>
  /\ now - lastCreationRef[1].ts < ThrottleWindowMs

\* recent && recent.type === t && (recent.name ?? "") === normalized
\*        && now - recent.ts < 5000
RecentCreation(t, normalized) ==
  /\ lastCreationRef # <<>>
  /\ lastCreationRef[1].type = t
  /\ lastCreationRef[1].name = normalized
  /\ now - lastCreationRef[1].ts < ThrottleWindowMs

\* An addItem that returns createdId as it was declared, ""
addItemReturnsDeclared(base) == <<>>

\* What addItem returns: createdId, assigned by the updater that setState runs
\* before addItem returns.
addItemReturn(base) == CreatedId(base)

\* The createItem action
createItem(type, name) ==
  LET normalized == Trim(name)
      existing == IF normalized # <<>>
                  THEN FindExisting(viewState.items, type, normalized)
                  ELSE 0
      id == addItemReturn(state)
  IN  /\ Runs
      /\ UNCHANGED <<lastChecklistCreationRef, lastMetricCreationRef, inflight, edits>>
      /\ IF existing # 0
         THEN /\ CalledWith("createItem", type, normalized, <<>>, "existing",
                        Str(viewState.items[existing].id), <<>>)
              /\ UNCHANGED <<state, lastCreationRef, allocated>>
         ELSE IF RecentCreation(type, normalized)
         THEN /\ CalledWith("createItem", type, normalized, <<>>, "recent",
                        Str(lastCreationRef[1].id), <<>>)
              /\ UNCHANGED <<state, lastCreationRef, allocated>>
         ELSE /\ state.itemsCreated < MaxCreated
              /\ state' = addItem(state, type, name)
              /\ allocated' = Append(allocated, CreatedId(state))
              /\ lastCreationRef' =
                   <<[type |-> type, name |-> normalized, id |-> id, ts |-> now]>>
              /\ CalledWith("createItem", type, normalized, <<>>, "created", Str(id), <<>>)

\* The deleteItem action
deleteItemAction(itemId) ==
  /\ Runs
  /\ state' = deleteItem(state, itemId)
  /\ CalledWith("deleteItem", "", <<>>, itemId, "",
            Str(IF HasItem(viewState.items, itemId)
                THEN DeletedPrefix \o itemId
                ELSE NotFoundPrefix \o itemId), <<>>)
  /\ UNCHANGED <<refs, inflight, edits, allocated>>

\* NewItemMenu's onSelect, rendered in the empty state: addItem(t)
NewItemMenuSelect(type) ==
  /\ viewState.items = <<>>
  /\ state.itemsCreated < MaxCreated
  /\ Runs
  /\ state' = addItem(state, type, <<>>)
  /\ allocated' = Append(allocated, CreatedId(state))
  /\ CalledWith("NewItemMenu", type, <<>>, <<>>, "created", Undefined, <<>>)
  /\ UNCHANGED <<refs, inflight, edits>>

\* The delete button of a rendered card: deleteItem(item.id)
DeleteCardClick(itemId) ==
  /\ HasItem(viewState.items, itemId)
  /\ Runs
  /\ state' = deleteItem(state, itemId)
  /\ CalledWith("DeleteCard", "", <<>>, itemId, "", Undefined, <<>>)
  /\ UNCHANGED <<refs, inflight, edits, allocated>>

\* The setGlobalTitle action
setGlobalTitle(title) ==
  /\ Edits
  /\ state' = [state EXCEPT !.globalTitle = title]
  /\ CalledWith("setGlobalTitle", "", <<>>, <<>>, "", Undefined, <<>>)
  /\ UNCHANGED <<refs, inflight, allocated>>

\* The setGlobalDescription action
setGlobalDescription(description) ==
  /\ Edits
  /\ state' = [state EXCEPT !.globalDescription = description]
  /\ CalledWith("setGlobalDescription", "", <<>>, <<>>, "", Undefined, <<>>)
  /\ UNCHANGED <<refs, inflight, allocated>>

\* The setItemName action
setItemName(name, itemId) ==
  /\ Edits
  /\ state' = updateItem(state, itemId, [name |-> name])
  /\ CalledWith("setItemName", "", <<>>, itemId, "", Undefined, <<>>)
  /\ UNCHANGED <<refs, inflight, allocated>>

\* The setItemSubtitleOrDescription action
setItemSubtitleOrDescription(subtitle, itemId) ==
  /\ Edits
  /\ state' = updateItem(state, itemId, [subtitle |-> subtitle])
  /\ CalledWith("setItemSubtitleOrDescription", "", <<>>, itemId, "", Undefined, <<>>)
  /\ UNCHANGED <<refs, inflight, allocated>>

---------------------------------------------------------------------------
(* The updaters the data setters hand to updateItemData.                   *)

\* The elements a JavaScript iteration of a value yields: those of an array,
\* the characters of a string, none for a missing value (the ?? [] default).
Elements(data, key) ==
  IF key \notin DOMAIN data THEN <<>>
  ELSE IF data[key].t = "string"
       THEN [i \in 1..Len(data[key].v) |-> <<data[key].v[i]>>]
       ELSE data[key].v

\* seq.includes(x)
Includes(seq, x) == \E i \in DOMAIN seq : seq[i] = x

\* Array.from(new Set(seq)): the first occurrence of each element, in order
RECURSIVE SetOrder(_)
SetOrder(seq) ==
  IF seq = <<>> THEN <<>>
  ELSE LET init == SetOrder(SubSeq(seq, 1, Len(seq) - 1))
       IN  IF Includes(init, seq[Len(seq)]) THEN init ELSE Append(init, seq[Len(seq)])

\* seq.filter((t) => t !== x)
RECURSIVE Without(_, _)
Without(seq, x) ==
  IF seq = <<>> THEN <<>>
  ELSE IF Head(seq) = x THEN Without(Tail(seq), x)
       ELSE <<Head(seq)>> \o Without(Tail(seq), x)

\* String(a) of an array of strings
RECURSIVE ArrayToString(_)
ArrayToString(a) ==
  IF a = <<>> THEN <<>>
  ELSE IF Len(a) = 1 THEN a[1]
       ELSE ArrayToString(SubSeq(a, 1, Len(a) - 1)) \o <<",">> \o a[Len(a)]

\* String(a) of an array of n objects: "[object Object]" for each
RECURSIVE ObjectsToString(_)
ObjectsToString(n) ==
  IF n = 0 THEN <<>>
  ELSE (IF n = 1 THEN <<>> ELSE ObjectsToString(n - 1) \o <<",">>)
       \o <<"[", "o", "b", "j", "e", "c", "t", " ", "O", "b", "j", "e", "c", "t", "]">>

\* The string a value becomes when it is concatenated with a string.
ToText(value) ==
  CASE value.t = "string" -> value.v
    [] value.t = "array" -> ArrayToString(value.v)
    [] value.t = "objects" -> ObjectsToString(Len(value.v))
    [] value.t = "number" -> NumberToString(value.v)
    [] OTHER -> <<>>

\* JavaScript truthiness of an optional argument
Truthy(x) ==
  CASE x.t = "boolean" -> x.v
    [] x.t = "string" -> x.v # <<>>
    [] x.t = "number" -> x.v # 0
    [] OTHER -> FALSE

Bool(b) == [t |-> "boolean", v |-> b]

setNoteField1Updater(prev, value) ==
  IF HasOwnProperty(prev, "field1") THEN Spread(prev, "field1", Str(value)) ELSE prev

appendNoteField1Updater(prev, value, withNewline) ==
  IF HasOwnProperty(prev, "field1")
  THEN Spread(prev, "field1",
              Str(ToText(prev.field1)
                  \o (IF Truthy(withNewline) THEN <<"\n">> ELSE <<>>)
                  \o value))
  ELSE prev

clearNoteField1Updater(prev) ==
  IF HasOwnProperty(prev, "field1") THEN Spread(prev, "field1", Str(<<>>)) ELSE prev

\* setProjectField1, setProjectField2, setProjectField3, clearProjectField3,
\* setEntityField1, setEntityField2: the field is replaced when it is a string
setStringFieldUpdater(prev, key, value) ==
  IF IsStringField(prev, key) THEN Spread(prev, key, Str(value)) ELSE prev

\* setCharacterName, setCharacterDescription, setCharacterImageUrl,
\* setCharacterSourceComic, setStoryTitle: the field is replaced when the data
\* has it
setOwnFieldUpdater(prev, key, value) ==
  IF HasOwnProperty(prev, key) THEN Spread(prev, key, Str(value)) ELSE prev

\* An updater that appends the tag without making a Set of the tags
addEntityField3Appends(prev, tag) ==
  Spread(prev, "field3", Arr(Append(Elements(prev, "field3"), tag)))

addEntityField3Updater(prev, tag) ==
  Spread(prev, "field3", Arr(SetOrder(Append(SetOrder(Elements(prev, "field3")), tag))))

removeEntityField3Updater(prev, tag) ==
  Spread(prev, "field3", Arr(Without(Elements(prev, "field3"), tag)))

\* toggleTag's updater
toggleTagUpdater(prev, tag) ==
  IF "field3" \in DOMAIN prev /\ prev.field3.t = "array"
  THEN LET selected == SetOrder(prev.field3.v)
       IN  Spread(prev, "field3",
                  Arr(IF Includes(selected, tag)
                      THEN Without(selected, tag)
                      ELSE Append(selected, tag)))
  ELSE prev

\* An updater that appends the trait without looking for it
addCharacterTraitAppends(prev, trait) ==
  IF HasOwnProperty(prev, "traits")
  THEN Spread(prev, "traits", Arr(Append(prev.traits.v, trait)))
  ELSE prev

addCharacterTraitUpdater(prev, trait) ==
  IF HasOwnProperty(prev, "traits") /\ ~Includes(prev.traits.v, trait)
  THEN Spread(prev, "traits", Arr(Append(prev.traits.v, trait)))
  ELSE prev

removeCharacterTraitUpdater(prev, trait) ==
  IF HasOwnProperty(prev, "traits")
  THEN Spread(prev, "traits", Arr(Without(prev.traits.v, trait)))
  ELSE prev

SlidePrefix == <<"s", "l", "i", "d", "e", "-">>

\* addStorySlide's updater at time ts
addStorySlideUpdater(prev, caption, duration, ts) ==
  IF HasOwnProperty(prev, "slides")
  THEN Spread(prev, "slides",
              Objs(Append(prev.slides.v,
                         [id |-> SlidePrefix \o NumberToString(ts),
                          imageUrl |-> <<>>,
                          audioUrl |-> <<>>,
                          caption |-> caption,
                          duration |-> duration])))
  ELSE prev

setStorySlideCaptionUpdater(prev, slideId, caption) ==
  IF HasOwnProperty(prev, "slides")
  THEN Spread(prev, "slides",
              Objs([i \in DOMAIN prev.slides.v |->
                     IF prev.slides.v[i].id = slideId
                     THEN [prev.slides.v[i] EXCEPT !.caption = caption]
                     ELSE prev.slides.v[i]]))
  ELSE prev

setStorySlideDurationUpdater(prev, slideId, duration) ==
  IF HasOwnProperty(prev, "slides")
  THEN Spread(prev, "slides",
              Objs([i \in DOMAIN prev.slides.v |->
                     IF prev.slides.v[i].id = slideId
                     THEN [prev.slides.v[i] EXCEPT !.duration = duration]
                     ELSE prev.slides.v[i]]))
  ELSE prev

RECURSIVE WithoutId(_, _)
WithoutId(seq, id) ==
  IF seq = <<>> THEN <<>>
  ELSE IF Head(seq).id = id THEN WithoutId(Tail(seq), id)
       ELSE <<Head(seq)>> \o WithoutId(Tail(seq), id)

removeStorySlideUpdater(prev, slideId) ==
  IF HasOwnProperty(prev, "slides")
  THEN Spread(prev, "slides", Objs(WithoutId(prev.slides.v, slideId)))
  ELSE prev

---------------------------------------------------------------------------
(* lib/canvas/updates.ts: the update functions of checklists and metrics.  *)
(* Data that lacks the list is returned as it is.                          *)

\* (text ?? "").trim() of an optional string argument
TrimmedOrEmpty(text) == IF text.t = "string" THEN Trim(text.v) ELSE <<>>

HasList(data, key) == key \in DOMAIN data /\ data[key].t = "objects"

\* The counter of a list, 0 when the data has none
CounterOf(data, key) ==
  IF key \in DOMAIN data /\ data[key].t = "number" THEN data[key].v ELSE 0

SubId(counter) == PadStart(NumberToString(counter), 4, "0")

\* A clamp that only keeps the value from exceeding 100
ClampValueUpperOnly(value) ==
  IF value.t = "number" THEN Num(IF value.v <= 100 THEN value.v ELSE 100) ELSE Str(<<>>)

\* A metric value: a finite number clamped to 0..100, else the unset marker ""
ClampValue(value) ==
  IF value.t = "number" THEN Num(Max(0, IF value.v <= 100 THEN value.v ELSE 100)) ELSE Str(<<>>)

\* The id projectAddField4Item creates
projectAddField4ItemId(data) ==
  IF HasList(data, "field4") THEN SubId(CounterOf(data, "field4_id") + 1) ELSE <<>>

projectAddField4Item(data, text) ==
  IF HasList(data, "field4")
  THEN [data EXCEPT
          !.field4 = Objs(Append(data.field4.v,
                                 [id |-> projectAddField4ItemId(data),
                                  text |-> TrimmedOrEmpty(text),
                                  done |-> FALSE,
                                  proposed |-> FALSE])),
          !.field4_id = Num(CounterOf(data, "field4_id") + 1)]
  ELSE data

projectSetField4ItemText(data, checklistItemId, text) ==
  IF HasList(data, "field4")
  THEN [data EXCEPT
          !.field4 = Objs([i \in DOMAIN data.field4.v |->
                            IF data.field4.v[i].id = checklistItemId
                            THEN [data.field4.v[i] EXCEPT !.text = text]
                            ELSE data.field4.v[i]])]
  ELSE data

projectSetField4ItemDone(data, checklistItemId, done) ==
  IF HasList(data, "field4")
  THEN [data EXCEPT
          !.field4 = Objs([i \in DOMAIN data.field4.v |->
                            IF data.field4.v[i].id = checklistItemId
                            THEN [data.field4.v[i] EXCEPT !.done = done]
                            ELSE data.field4.v[i]])]
  ELSE data

projectRemoveField4Item(data, checklistItemId) ==
  IF HasList(data, "field4")
  THEN [data EXCEPT !.field4 = Objs(WithoutId(data.field4.v, checklistItemId))]
  ELSE data

\* The id chartAddField1Metric creates
chartAddField1MetricId(data) ==
  IF HasList(data, "field1") THEN SubId(CounterOf(data, "field1_id") + 1) ELSE <<>>

chartAddField1Metric(data, label, value) ==
  IF HasList(data, "field1")
  THEN [data EXCEPT
          !.field1 = Objs(Append(data.field1.v,
                                 [id |-> chartAddField1MetricId(data),
                                  label |-> TrimmedOrEmpty(label),
                                  value |-> ClampValue(value)])),
          !.field1_id = Num(CounterOf(data, "field1_id") + 1)]
  ELSE data

\* index is 0-based
chartSetField1Label(data, index, label) ==
  IF HasList(data, "field1") /\ index >= 0 /\ index < Len(data.field1.v)
  THEN [data EXCEPT !.field1 = Objs([data.field1.v EXCEPT ![index + 1].label = label])]
  ELSE data

chartSetField1Value(data, index, value) ==
  IF HasList(data, "field1") /\ index >= 0 /\ index < Len(data.field1.v)
  THEN [data EXCEPT
          !.field1 = Objs([data.field1.v EXCEPT ![index + 1].value = ClampValue(value)])]
  ELSE data

chartRemoveField1Metric(data, index) ==
  IF HasList(data, "field1") /\ index >= 0 /\ index < Len(data.field1.v)
  THEN [data EXCEPT
          !.field1 = Objs(SubSeq(data.field1.v, 1, index)
                          \o SubSeq(data.field1.v, index + 2, Len(data.field1.v)))]
  ELSE data

---------------------------------------------------------------------------
(* The handlers that set the data of one item.                             *)

\* A handler calls updateItemData(itemId, updater); updated[i] is
\* updater(items[i].data).
SetsDataWith(name, arg, itemId, updated, ret, opts) ==
  /\ Edits
  /\ state' = updateItemData(state, itemId, updated)
  /\ CalledWith(name, "", arg, itemId, "", ret, opts)
  /\ UNCHANGED <<inflight, allocated>>

\* The data of every item, for an updater to map
Datas == [i \in DOMAIN state.items |-> state.items[i].data]

setNoteField1(value, itemId) ==
  /\ SetsDataWith("setNoteField1", value, itemId,
              [i \in DOMAIN Datas |-> setNoteField1Updater(Datas[i], value)],
              Undefined, <<>>)
  /\ UNCHANGED refs

appendNoteField1(value, itemId, withNewline) ==
  /\ SetsDataWith("appendNoteField1", value, itemId,
                  [i \in DOMAIN Datas |->
                     appendNoteField1Updater(Datas[i], value, withNewline)],
                  Undefined, <<withNewline>>)
  /\ UNCHANGED refs

clearNoteField1(itemId) ==
  /\ SetsDataWith("clearNoteField1", <<>>, itemId,
              [i \in DOMAIN Datas |-> clearNoteField1Updater(Datas[i])],
              Undefined, <<>>)
  /\ UNCHANGED refs

setProjectField1(value, itemId) ==
  /\ SetsDataWith("setProjectField1", value, itemId,
              [i \in DOMAIN Datas |-> setStringFieldUpdater(Datas[i], "field1", value)],
              Undefined, <<>>)
  /\ UNCHANGED refs

setProjectField2(value, itemId) ==
  /\ SetsDataWith("setProjectField2", value, itemId,
              [i \in DOMAIN Datas |-> setStringFieldUpdater(Datas[i], "field2", value)],
              Undefined, <<>>)
  /\ UNCHANGED refs

\* /^\d{4}-\d{2}-\d{2}$/.test(s)
IsIsoDate(s) ==
  /\ Len(s) = 10
  /\ \A i \in {1, 2, 3, 4, 6, 7, 9, 10} : IsDigit(s[i])
  /\ s[5] = "-"
  /\ s[8] = "-"

\* The date-only forms of the ECMAScript date-time format: YYYY and YYYY-MM
IsYear(s) == Len(s) = 4 /\ \A i \in 1..4 : IsDigit(s[i])

IsYearMonth(s) ==
  /\ Len(s) = 7
  /\ \A i \in {1, 2, 3, 4, 6, 7} : IsDigit(s[i])
  /\ s[5] = "-"

\* new Date(s): the UTC <<year, month, day>> of a date-only form, which is
\* UTC midnight of the first day it names; <<>> for an Invalid Date, which a
\* month outside 01..12 and a string with no digit in it are.
DateParse(s) ==
  IF IsYear(s) THEN <<DigitsValue(s), 1, 1>>
  ELSE IF IsYearMonth(s) /\ DigitsValue(SubSeq(s, 6, 7)) \in 1..12
  THEN <<DigitsValue(SubSeq(s, 1, 4)), DigitsValue(SubSeq(s, 6, 7)), 1>>
  ELSE <<>>

\* normalizeDate of the date argument, a string or undefined: <<>> for null
normalizeDate(input) ==
  IF input.t # "string" THEN <<>>
  ELSE IF IsIsoDate(input.v) THEN input.v
  ELSE LET parsed == DateParse(input.v)
       IN  IF parsed # <<>>
           THEN NumberToString(parsed[1]) \o <<"-">>
                \o PadStart(NumberToString(parsed[2]), 2, "0") \o <<"-">>
                \o PadStart(NumberToString(parsed[3]), 2, "0")
           ELSE <<>>

\* date ?? value ?? val ?? text, with date alone given or nothing at all; a
\* string is given whose new Date the model knows
setProjectField3(date, itemId) ==
  /\ date.t = "string" =>
       \/ IsIsoDate(date.v) \/ IsYear(date.v) \/ IsYearMonth(date.v)
       \/ \A c \in DOMAIN date.v : ~IsDigit(date.v[c])
  /\ IF normalizeDate(date) = <<>>
     THEN /\ Edits
          /\ CalledWith("setProjectField3", "", ToText(date), itemId, "rejected",
                        Undefined, <<date>>)
          /\ UNCHANGED <<state, inflight, allocated>>
     ELSE SetsDataWith("setProjectField3", ToText(date), itemId,
                       [i \in DOMAIN Datas |->
                          setStringFieldUpdater(Datas[i], "field3",
                                                normalizeDate(date))],
                       Undefined, <<date>>)
  /\ UNCHANGED refs

clearProjectField3(itemId) ==
  /\ SetsDataWith("clearProjectField3", <<>>, itemId,
              [i \in DOMAIN Datas |-> setStringFieldUpdater(Datas[i], "field3", <<>>)],
              Undefined, <<>>)
  /\ UNCHANGED refs

setEntityField1(value, itemId) ==
  /\ SetsDataWith("setEntityField1", value, itemId,
              [i \in DOMAIN Datas |-> setStringFieldUpdater(Datas[i], "field1", value)],
              Undefined, <<>>)
  /\ UNCHANGED refs

setEntityField2(value, itemId) ==
  /\ SetsDataWith("setEntityField2", value, itemId,
              [i \in DOMAIN Datas |-> setStringFieldUpdater(Datas[i], "field2", value)],
              Undefined, <<>>)
  /\ UNCHANGED refs

addEntityField3(tag, itemId) ==
  /\ SetsDataWith("addEntityField3", tag, itemId,
              [i \in DOMAIN Datas |-> addEntityField3Updater(Datas[i], tag)],
              Undefined, <<>>)
  /\ UNCHANGED refs

\* The updater throws on an item whose field3 is a string, and the document
\* stays as it was.
removeEntityField3(tag, itemId) ==
  /\ IF \E i \in DOMAIN Datas :
          state.items[i].id = itemId /\ IsStringField(Datas[i], "field3")
     THEN /\ Edits
          /\ CalledWith("removeEntityField3", "", tag, itemId, "thrown", Thrown, <<>>)
          /\ UNCHANGED <<state, inflight, allocated>>
     ELSE SetsDataWith("removeEntityField3", tag, itemId,
                   [i \in DOMAIN Datas |-> removeEntityField3Updater(Datas[i], tag)],
                   Undefined, <<>>)
  /\ UNCHANGED refs

\* onToggleTag of a rendered card: toggleTag(item.id, tag)
toggleTag(itemId, tag) ==
  /\ HasItem(viewState.items, itemId)
  /\ SetsDataWith("toggleTag", tag, itemId,
              [i \in DOMAIN Datas |-> toggleTagUpdater(Datas[i], tag)],
              Undefined, <<>>)
  /\ UNCHANGED refs

\* The window of the checklist and metric throttles, in ms
SubThrottleWindowMs == 800

\* ref.current[key] = entry
WithKey(ref, key, entry) ==
  [k \in (DOMAIN ref) \cup {key} |-> IF k = key THEN entry ELSE ref[k]]

\* list.find((c) => (c.text ?? "").trim() === norm): its index, or 0
FindText(list, norm) ==
  LET matches == {i \in DOMAIN list : Trim(list[i].text) = norm}
  IN  IF matches = {} THEN 0 ELSE CHOOSE i \in matches : \A j \in matches : i <= j

\* list.find((m) => (m.label ?? "").trim() === normLabel): its index, or 0
FindLabel(list, normLabel) ==
  LET matches == {i \in DOMAIN list : Trim(list[i].label) = normLabel}
  IN  IF matches = {} THEN 0 ELSE CHOOSE i \in matches : \A j \in matches : i <= j

\* The index in items of the first item with this id, or 0
FindItem(items, itemId) ==
  LET matches == {i \in DOMAIN items : items[i].id = itemId}
  IN  IF matches = {} THEN 0 ELSE CHOOSE i \in matches : \A j \in matches : i <= j

\* The list under key of the rendered item itemId when it has the type, else <<>>
ViewList(itemId, type, key) ==
  LET i == FindItem(viewState.items, itemId)
  IN  IF i # 0 /\ viewState.items[i].type = type
         /\ HasList(viewState.items[i].data, key)
      THEN viewState.items[i].data[key].v
      ELSE <<>>

\* createdId after updateItemData: the id the updater made for the last item
\* with this id, "" when the updater never ran
CreatedSubId(itemId, ids) ==
  LET matches == {i \in DOMAIN state.items : state.items[i].id = itemId}
  IN  IF matches = {} THEN <<>>
      ELSE ids[CHOOSE i \in matches : \A j \in matches : j <= i]

addProjectChecklistItem(itemId, text) ==
  LET norm == TrimmedOrEmpty(text)
      list == ViewList(itemId, "project", "field4")
      dup == IF norm # <<>> THEN FindText(list, norm) ELSE 0
      recent == itemId \in DOMAIN lastChecklistCreationRef
                /\ lastChecklistCreationRef[itemId].text = norm
                /\ now - lastChecklistCreationRef[itemId].ts < SubThrottleWindowMs
      createdId == CreatedSubId(itemId,
                     [i \in DOMAIN Datas |-> projectAddField4ItemId(Datas[i])])
  IN  /\ UNCHANGED <<lastCreationRef, lastMetricCreationRef>>
      /\ IF dup # 0 \/ recent
         THEN /\ Edits
              /\ CalledWith("addProjectChecklistItem", "", norm, itemId,
                        IF dup # 0 THEN "existing" ELSE "recent",
                        Str(IF dup # 0 THEN list[dup].id
                            ELSE lastChecklistCreationRef[itemId].id), <<>>)
              /\ UNCHANGED <<state, lastChecklistCreationRef, inflight, allocated>>
         ELSE /\ SetsDataWith("addProjectChecklistItem", norm, itemId,
                          [i \in DOMAIN Datas |-> projectAddField4Item(Datas[i], text)],
                          Str(createdId), <<>>)
              /\ lastChecklistCreationRef' =
                   WithKey(lastChecklistCreationRef, itemId,
                           [text |-> norm, id |-> createdId, ts |-> now])

\* toLowerCase of the letters of "true" and "false"
ToLowerCase(s) ==
  [i \in DOMAIN s |->
     CASE s[i] = "T" -> "t" [] s[i] = "R" -> "r" [] s[i] = "U" -> "u"
       [] s[i] = "E" -> "e" [] s[i] = "F" -> "f" [] s[i] = "A" -> "a"
       [] s[i] = "L" -> "l" [] s[i] = "S" -> "s" [] OTHER -> s[i]]

\* toBool: a boolean as it is, "true" and "false" in any case and padding,
\* undefined for anything else
toBool(v) ==
  CASE v.t = "boolean" -> v
    [] v.t = "string" /\ ToLowerCase(Trim(v.v)) = <<"t", "r", "u", "e">> -> Bool(TRUE)
    [] v.t = "string" /\ ToLowerCase(Trim(v.v)) = <<"f", "a", "l", "s", "e">> -> Bool(FALSE)
    [] OTHER -> Undefined

\* /^\d+$/.test(s)
IsDigits(s) == s # <<>> /\ \A i \in DOMAIN s : IsDigit(s[i])

\* A resolution that tries the 1-based index before the 0-based one
ResolveTargetIdOneBasedFirst(list, targetId) ==
  IF (\E i \in DOMAIN list : list[i].id = targetId) \/ ~IsDigits(targetId)
  THEN targetId
  ELSE LET n == ParseInt(targetId).value
       IN  IF n > 0 /\ n - 1 < Len(list) THEN list[n].id
           ELSE IF n >= 0 /\ n < Len(list) THEN list[n + 1].id
           ELSE targetId

\* The checklist id a target names: itself when an entry has it, else the entry
\* at the index it spells (0-based, then 1-based), else itself
ResolveTargetId(list, targetId) ==
  IF (\E i \in DOMAIN list : list[i].id = targetId) \/ ~IsDigits(targetId)
  THEN targetId
  ELSE LET n == ParseInt(targetId).value
       IN  IF n >= 0 /\ n < Len(list) THEN list[n + 1].id
           ELSE IF n > 0 /\ n - 1 < Len(list) THEN list[n].id
           ELSE targetId

setProjectChecklistItemUpdater(prev, target, text, done) ==
  LET list == IF HasList(prev, "field4") THEN prev.field4.v ELSE <<>>
      targetId == ResolveTargetId(list, target)
      next == IF text.t = "string"
              THEN projectSetField4ItemText(prev, targetId, text.v)
              ELSE prev
  IN  IF toBool(done).t = "boolean"
      THEN projectSetField4ItemDone(next, targetId, toBool(done).v)
      ELSE next

setProjectChecklistItem(itemId, checklistItemId, text, done) ==
  /\ SetsDataWith("setProjectChecklistItem", checklistItemId, itemId,
                  [i \in DOMAIN Datas |->
                     setProjectChecklistItemUpdater(Datas[i], checklistItemId,
                                                    text, done)],
                  Undefined, <<text, done>>)
  /\ UNCHANGED refs

removeProjectChecklistItem(itemId, checklistItemId) ==
  /\ SetsDataWith("removeProjectChecklistItem", checklistItemId, itemId,
              [i \in DOMAIN Datas |-> projectRemoveField4Item(Datas[i], checklistItemId)],
              Undefined, <<>>)
  /\ UNCHANGED refs

addChartField1(itemId, label, value) ==
  LET normLabel == TrimmedOrEmpty(label)
      list == ViewList(itemId, "chart", "field1")
      dup == IF normLabel # <<>> THEN FindLabel(list, normLabel) ELSE 0
      valKey == ClampValue(value)
      recent == itemId \in DOMAIN lastMetricCreationRef
                /\ lastMetricCreationRef[itemId].label = normLabel
                /\ lastMetricCreationRef[itemId].value = valKey
                /\ now - lastMetricCreationRef[itemId].ts < SubThrottleWindowMs
      createdId == CreatedSubId(itemId,
                     [i \in DOMAIN Datas |-> chartAddField1MetricId(Datas[i])])
  IN  /\ UNCHANGED <<lastCreationRef, lastChecklistCreationRef>>
      /\ IF dup # 0 \/ recent
         THEN /\ Edits
              /\ CalledWith("addChartField1", "", normLabel, itemId,
                        IF dup # 0 THEN "existing" ELSE "recent",
                        Str(IF dup # 0 THEN list[dup].id
                            ELSE lastMetricCreationRef[itemId].id), <<>>)
              /\ UNCHANGED <<state, lastMetricCreationRef, inflight, allocated>>
         ELSE /\ SetsDataWith("addChartField1", normLabel, itemId,
                          [i \in DOMAIN Datas |->
                             chartAddField1Metric(Datas[i], label, value)],
                          Str(createdId), <<value>>)
              /\ lastMetricCreationRef' =
                   WithKey(lastMetricCreationRef, itemId,
                           [label |-> normLabel, value |-> valKey,
                            id |-> createdId, ts |-> now])

setChartField1Label(itemId, index, label) ==
  /\ SetsDataWith("setChartField1Label", label, itemId,
              [i \in DOMAIN Datas |-> chartSetField1Label(Datas[i], index, label)],
              Undefined, <<>>)
  /\ UNCHANGED refs

setChartField1Value(itemId, index, value) ==
  /\ SetsDataWith("setChartField1Value", <<>>, itemId,
              [i \in DOMAIN Datas |-> chartSetField1Value(Datas[i], index, Num(value))],
              Undefined, <<index, value>>)
  /\ UNCHANGED refs

clearChartField1Value(itemId, index) ==
  /\ SetsDataWith("clearChartField1Value", <<>>, itemId,
              [i \in DOMAIN Datas |-> chartSetField1Value(Datas[i], index, Str(<<>>))],
              Undefined, <<index>>)
  /\ UNCHANGED refs

removeChartField1(itemId, index) ==
  /\ SetsDataWith("removeChartField1", <<>>, itemId,
              [i \in DOMAIN Datas |-> chartRemoveField1Metric(Datas[i], index)],
              Undefined, <<>>)
  /\ UNCHANGED refs

setCharacterName(name, itemId) ==
  /\ SetsDataWith("setCharacterName", name, itemId,
              [i \in DOMAIN Datas |-> setOwnFieldUpdater(Datas[i], "name", name)],
              Undefined, <<>>)
  /\ UNCHANGED refs

setCharacterDescription(description, itemId) ==
  /\ SetsDataWith("setCharacterDescription", description, itemId,
              [i \in DOMAIN Datas |->
                 setOwnFieldUpdater(Datas[i], "description", description)],
              Undefined, <<>>)
  /\ UNCHANGED refs

addCharacterTrait(trait, itemId) ==
  /\ SetsDataWith("addCharacterTrait", trait, itemId,
              [i \in DOMAIN Datas |-> addCharacterTraitUpdater(Datas[i], trait)],
              Undefined, <<>>)
  /\ UNCHANGED refs

removeCharacterTrait(trait, itemId) ==
  /\ SetsDataWith("removeCharacterTrait", trait, itemId,
              [i \in DOMAIN Datas |-> removeCharacterTraitUpdater(Datas[i], trait)],
              Undefined, <<>>)
  /\ UNCHANGED refs

setCharacterImageUrl(image_url, itemId) ==
  /\ SetsDataWith("setCharacterImageUrl", image_url, itemId,
              [i \in DOMAIN Datas |-> setOwnFieldUpdater(Datas[i], "image_url", image_url)],
              Undefined, <<>>)
  /\ UNCHANGED refs

setCharacterSourceComic(source_comic, itemId) ==
  /\ SetsDataWith("setCharacterSourceComic", source_comic, itemId,
              [i \in DOMAIN Datas |->
                 setOwnFieldUpdater(Datas[i], "source_comic", source_comic)],
              Undefined, <<>>)
  /\ UNCHANGED refs

\* generateCharacterImage up to its await: the request is with the service
generateCharacterImage(character_name, itemId) ==
  /\ Len(inflight) < MaxInflight
  /\ Edits
  /\ inflight' = Append(inflight, [kind |-> "generateCharacterImage",
                                   character_name |-> character_name,
                                   itemId |-> itemId])
  /\ CalledWith("generateCharacterImage", "", character_name, itemId, "awaiting",
                Undefined, <<>>)
  /\ UNCHANGED <<state, refs, allocated>>

\* "Error generating image for "
ErrorText ==
  <<"E", "r", "r", "o", "r", " ", "g", "e", "n", "e", "r", "a", "t", "i",
    "n", "g", " ", "i", "m", "a", "g", "e", " ", "f", "o", "r", " ">>

\* An answer whose updater runs on the document of the last render
generateCharacterImageSucceedsFromSnapshot(k, image_url) ==
  /\ k \in DOMAIN inflight
  /\ inflight[k].kind = "generateCharacterImage"
  /\ Runs
  /\ inflight' = SubSeq(inflight, 1, k - 1) \o SubSeq(inflight, k + 1, Len(inflight))
  /\ state' = updateItemData(viewState, inflight[k].itemId,
                [i \in DOMAIN viewState.items |->
                   setOwnFieldUpdater(viewState.items[i].data,
                                      "image_url", image_url)])
  /\ CalledWith("generateCharacterImage", "", inflight[k].character_name,
                inflight[k].itemId, "success", Str(image_url), <<>>)
  /\ UNCHANGED <<refs, edits, allocated>>

\* The service answers request k with success and an image url: the updater
\* runs on the document as it is now, and the handler returns
\* "Successfully generated and saved image for <name> at <url>"
generateCharacterImageSucceeds(k, image_url) ==
  /\ k \in DOMAIN inflight
  /\ inflight[k].kind = "generateCharacterImage"
  /\ Runs
  /\ inflight' = SubSeq(inflight, 1, k - 1) \o SubSeq(inflight, k + 1, Len(inflight))
  /\ state' = updateItemData(state, inflight[k].itemId,
                [i \in DOMAIN Datas |->
                   setOwnFieldUpdater(Datas[i], "image_url", image_url)])
  /\ CalledWith("generateCharacterImage", "", inflight[k].character_name,
                inflight[k].itemId, "success",
                Str(<<"S", "u", "c", "c", "e", "s", "s", "f", "u", "l", "l", "y", " ",
                      "g", "e", "n", "e", "r", "a", "t", "e", "d", " ", "a", "n", "d",
                      " ", "s", "a", "v", "e", "d", " ", "i", "m", "a", "g", "e", " ",
                      "f", "o", "r", " ">>
                    \o inflight[k].character_name \o <<" ", "a", "t", " ">>
                    \o image_url),
                <<>>)
  /\ UNCHANGED <<refs, edits, allocated>>

\* A catch branch that puts back the document of the last render
generateCharacterImageFailsRestores(k, message) ==
  /\ k \in DOMAIN inflight
  /\ inflight[k].kind = "generateCharacterImage"
  /\ Runs
  /\ inflight' = SubSeq(inflight, 1, k - 1) \o SubSeq(inflight, k + 1, Len(inflight))
  /\ state' = viewState
  /\ CalledWith("generateCharacterImage", "", inflight[k].character_name,
                inflight[k].itemId, "error",
                Str(ErrorText \o inflight[k].character_name \o <<":", " ">>
                    \o message),
                <<>>)
  /\ UNCHANGED <<refs, edits, allocated>>

\* Request k fails: fetch rejects, the response is not ok, its body is no
\* JSON, or it carries no success flag with an image url. Every one of them
\* throws inside the try, and the catch returns
\* "Error generating image for <name>: <message>", message being that of the
\* error (of the network, "HTTP error! status: <n>", the error the service
\* names, "Failed to generate character image") or "Unknown error".
generateCharacterImageFails(k, message) ==
  /\ k \in DOMAIN inflight
  /\ inflight[k].kind = "generateCharacterImage"
  /\ Runs
  /\ inflight' = SubSeq(inflight, 1, k - 1) \o SubSeq(inflight, k + 1, Len(inflight))
  /\ CalledWith("generateCharacterImage", "", inflight[k].character_name,
                inflight[k].itemId, "error",
                Str(ErrorText \o inflight[k].character_name \o <<":", " ">>
                    \o message),
                <<>>)
  /\ UNCHANGED <<state, refs, edits, allocated>>

setStoryTitle(title, itemId) ==
  /\ SetsDataWith("setStoryTitle", title, itemId,
              [i \in DOMAIN Datas |-> setOwnFieldUpdater(Datas[i], "title", title)],
              Undefined, <<>>)
  /\ UNCHANGED refs

DefaultDuration == 8

\* duration is a number or undefined, and undefined takes the default
addStorySlide(itemId, caption, duration) ==
  /\ SetsDataWith("addStorySlide", caption, itemId,
              [i \in DOMAIN Datas |->
                 addStorySlideUpdater(Datas[i], caption,
                    IF duration.t = "number" THEN duration.v ELSE DefaultDuration,
                    now)],
              Undefined, <<>>)
  /\ UNCHANGED refs

setStorySlideCaption(itemId, slideId, caption) ==
  /\ SetsDataWith("setStorySlideCaption", caption, itemId,
              [i \in DOMAIN Datas |->
                 setStorySlideCaptionUpdater(Datas[i], slideId, caption)],
              Undefined, <<>>)
  /\ UNCHANGED refs

setStorySlideDuration(itemId, slideId, duration) ==
  /\ SetsDataWith("setStorySlideDuration", slideId, itemId,
              [i \in DOMAIN Datas |->
                 setStorySlideDurationUpdater(Datas[i], slideId, duration)],
              Undefined, <<>>)
  /\ UNCHANGED refs

removeStorySlide(itemId, slideId) ==
  /\ SetsDataWith("removeStorySlide", slideId, itemId,
              [i \in DOMAIN Datas |-> removeStorySlideUpdater(Datas[i], slideId)],
              Undefined, <<>>)
  /\ UNCHANGED refs

processUploadedComic ==
  /\ Edits
  /\ CalledWith("processUploadedComic", "", <<>>, <<>>, "",
                Str(<<"P", "r", "o", "c", "e", "s", "s", "i", "n", "g", " ", "t", "h",
                      "e", " ", "m", "o", "s", "t", " ", "r", "e", "c", "e", "n", "t",
                      "l", "y", " ", "u", "p", "l", "o", "a", "d", "e", "d", " ", "c",
                      "o", "m", "i", "c", " ", "f", "i", "l", "e", ".", ".", ".">>),
                <<>>)
  /\ UNCHANGED <<state, refs, inflight, allocated>>

---------------------------------------------------------------------------
(* components/canvas/StorySlide.tsx: the editor of a rendered story card.  *)
(* The card is given the data of the item as of the last render and        *)
(* onUpdateData, which is updateItemData(item.id, updater).                *)

\* The story card of item itemId is on the page
StoryCard(itemId) ==
  /\ FindItem(viewState.items, itemId) # 0
  /\ viewState.items[FindItem(viewState.items, itemId)].type = "story"

\* The card shows the controls of this slide
SlideShown(itemId, slideId) ==
  /\ StoryCard(itemId)
  /\ \E j \in DOMAIN ViewList(itemId, "story", "slides") :
        ViewList(itemId, "story", "slides")[j].id = slideId

\* setStorySlide({slides}): onUpdateData((prev) => ({...prev, slides}))
setStorySlide(name, slideId, itemId, slides, opts) ==
  /\ SetsDataWith(name, slideId, itemId,
                  [i \in DOMAIN Datas |-> Spread(Datas[i], "slides", Objs(slides))],
                  Undefined, opts)
  /\ UNCHANGED refs

\* slides is data.slides of the render the card was drawn in
addSlide(itemId) ==
  /\ StoryCard(itemId)
  /\ setStorySlide("addSlide", <<>>, itemId,
                   Append(ViewList(itemId, "story", "slides"),
                          [id |-> SlidePrefix \o NumberToString(now),
                           imageUrl |-> <<>>,
                           audioUrl |-> <<>>,
                           caption |-> <<>>,
                           duration |-> 5]),
                   <<>>)

removeSlide(itemId, slideId) ==
  /\ SlideShown(itemId, slideId)
  /\ setStorySlide("removeSlide", slideId, itemId,
                   WithoutId(ViewList(itemId, "story", "slides"), slideId), <<>>)

\* slides.map(slide => slide.id === slideId ? {...slide, ...updates} : slide)
\* for updates of one key
WithSlide(slides, slideId, key, value) ==
  [i \in DOMAIN slides |->
     IF slides[i].id = slideId
     THEN [slides[i] EXCEPT ![key] = value]
     ELSE slides[i]]

\* The caption input of a slide changes: updateSlide(slide.id, {caption})
updateSlide(itemId, slideId, key, value) ==
  /\ SlideShown(itemId, slideId)
  /\ setStorySlide("updateSlide", slideId, itemId,
                   WithSlide(ViewList(itemId, "story", "slides"), slideId, key, value),
                   <<key, value>>)

\* handleImageUpload (key imageUrl) and handleAudioUpload (key audioUrl) up to
\* readAsDataURL: the reader's onload keeps the updateSlide of this render, and
\* with it this render's slides. key is the field onload will set.
handleUpload(key, itemId, slideId) ==
  /\ SlideShown(itemId, slideId)
  /\ Len(inflight) < MaxInflight
  /\ inflight' = Append(inflight, [kind |-> "handleUpload", key |-> key,
                                   itemId |-> itemId, slideId |-> slideId,
                                   slides |-> ViewList(itemId, "story", "slides")])
  /\ CalledWith("handleUpload", "", slideId, itemId, "reading", Undefined, <<key>>)
  /\ UNCHANGED <<state, view, refs, now, player, pending, edits, allocated>>

\* reader.onload of upload k: updateSlide(slideId, {imageUrl or audioUrl})
readerOnload(k, result) ==
  /\ k \in DOMAIN inflight
  /\ inflight[k].kind = "handleUpload"
  /\ Edits
  /\ inflight' = SubSeq(inflight, 1, k - 1) \o SubSeq(inflight, k + 1, Len(inflight))
  /\ state' = updateItemData(state, inflight[k].itemId,
                [i \in DOMAIN Datas |->
                   Spread(Datas[i], "slides",
                          Objs(WithSlide(inflight[k].slides, inflight[k].slideId,
                                         inflight[k].key, result)))])
  /\ CalledWith("updateSlide", "", inflight[k].slideId, inflight[k].itemId,
                "onload", Undefined, <<inflight[k].key, result>>)
  /\ UNCHANGED <<refs, allocated>>

\* toggleTTS while nothing plays: speakText of the caption of the slide that
\* shows (the first one), else of the title, else of "No text available", up
\* to the await of generateTTS
speakText(itemId) ==
  LET slides == ViewList(itemId, "story", "slides")
      data == viewState.items[FindItem(viewState.items, itemId)].data
      text == IF slides # <<>> /\ slides[1].caption # <<>> THEN slides[1].caption
              ELSE IF data.title.v # <<>> THEN data.title.v
              ELSE <<"N", "o", " ", "t", "e", "x", "t", " ", "a", "v", "a", "i",
                     "l", "a", "b", "l", "e">>
  IN  /\ StoryCard(itemId)
      /\ Trim(text) # <<>>
      /\ Len(inflight) < MaxInflight
      /\ inflight' = Append(inflight, [kind |-> "generateTTS", itemId |-> itemId,
                                       text |-> text])
      /\ CalledWith("generateTTS", "", text, itemId, "awaiting", Undefined, <<>>)
      /\ UNCHANGED <<state, view, refs, now, player, pending, edits, allocated>>

\* generateTTS k has its audio url, from the service or from ttsCache: it is
\* kept in ttsCache, state of the card, and returned to speakText, which
\* plays it
generateTTSResolves(k, audioUrl) ==
  /\ k \in DOMAIN inflight
  /\ inflight[k].kind = "generateTTS"
  /\ inflight' = SubSeq(inflight, 1, k - 1) \o SubSeq(inflight, k + 1, Len(inflight))
  /\ CalledWith("generateTTS", "", inflight[k].text, inflight[k].itemId, "success",
                Str(audioUrl), <<>>)
  /\ UNCHANGED <<state, view, refs, now, player, pending, edits, allocated>>

\* The response of generateTTS k is not ok, or fetch rejects: generateTTS
\* logs the error and throws it again, and so does speakText
generateTTSRejects(k) ==
  /\ k \in DOMAIN inflight
  /\ inflight[k].kind = "generateTTS"
  /\ inflight' = SubSeq(inflight, 1, k - 1) \o SubSeq(inflight, k + 1, Len(inflight))
  /\ CalledWith("generateTTS", "", inflight[k].text, inflight[k].itemId, "error",
                Thrown, <<>>)
  /\ UNCHANGED <<state, view, refs, now, player, pending, edits, allocated>>

---------------------------------------------------------------------------
(* choose_item and choose_card_type: renderAndWaitForResponse draws a      *)
(* prompt in the chat and the agent's call waits until respond is called.  *)
(* A prompt in flight holds what its last render drew: the option values,  *)
(* the local variable the select writes to, whether it has buttons and     *)
(* whether its confirm button is disabled.                                 *)

\* What render draws for the prompt of this name over these items
choosePrompt(name, items) ==
  IF name = "choose_item"
  THEN [kind |-> name,
        options |-> [i \in DOMAIN items |-> items[i].id],
        selected |-> IF items = <<>> THEN <<>> ELSE items[1].id,
        buttons |-> items # <<>>,
        disabled |-> FALSE]
  ELSE [kind |-> name,
        options |-> <<<<"p", "r", "o", "j", "e", "c", "t">>,
                      <<"e", "n", "t", "i", "t", "y">>,
                      <<"n", "o", "t", "e">>,
                      <<"c", "h", "a", "r", "t">>,
                      <<"c", "h", "a", "r", "a", "c", "t", "e", "r">>>>,
        selected |-> <<>>,
        buttons |-> TRUE,
        disabled |-> TRUE]

\* The agent calls choose_item or choose_card_type: the prompt is drawn over
\* the rendered items and nothing is delivered
renderAndWaitForResponse(name) ==
  /\ Len(inflight) < MaxInflight
  /\ inflight' = Append(inflight, choosePrompt(name, viewState.items))
  /\ CalledWith(name, "", <<>>, <<>>, "awaiting", Undefined, <<>>)
  /\ UNCHANGED <<state, view, refs, now, player, pending, edits, allocated>>

\* The chat draws prompt k again after the page has rendered: render runs
\* anew, its local variable starts over, the handlers are those of this run
promptRenders(k) ==
  /\ k \in DOMAIN inflight
  /\ inflight[k].kind \in {"choose_item", "choose_card_type"}
  /\ inflight[k] # choosePrompt(inflight[k].kind, viewState.items)
  /\ inflight' = [inflight EXCEPT ![k] = choosePrompt(inflight[k].kind, viewState.items)]
  /\ UNCHANGED <<state, view, refs, now, player, pending, edits, allocated, call>>

\* The human picks option o of the select of prompt k: onChange
selectOnChange(k, o) ==
  /\ k \in DOMAIN inflight
  /\ inflight[k].kind \in {"choose_item", "choose_card_type"}
  /\ o \in DOMAIN inflight[k].options
  /\ inflight[k].selected # inflight[k].options[o]
  /\ inflight' = [inflight EXCEPT ![k].selected = inflight[k].options[o]]
  /\ UNCHANGED <<state, view, refs, now, player, pending, edits, allocated, call>>

\* The human presses Cancel of prompt k: respond("")
cancelClick(k) ==
  /\ k \in DOMAIN inflight
  /\ inflight[k].kind \in {"choose_item", "choose_card_type"}
  /\ inflight[k].buttons
  /\ inflight' = SubSeq(inflight, 1, k - 1) \o SubSeq(inflight, k + 1, Len(inflight))
  /\ CalledWith(inflight[k].kind, "", <<>>, <<>>, "cancel", Str(<<>>),
                <<inflight[k].options, inflight[k].selected>>)
  /\ UNCHANGED <<state, view, refs, now, player, pending, edits, allocated>>

\* The human presses "Use item" or "Use type" of prompt k. A disabled button
\* runs no handler; "Use item" calls respond(selectedId), "Use type" calls
\* respond(selected) when selected is not "".
useClick(k) ==
  /\ k \in DOMAIN inflight
  /\ inflight[k].kind \in {"choose_item", "choose_card_type"}
  /\ inflight[k].buttons
  /\ IF inflight[k].disabled
        \/ (inflight[k].kind = "choose_card_type" /\ inflight[k].selected = <<>>)
     THEN /\ CalledWith(inflight[k].kind, "", <<>>, <<>>, "use", Undefined,
                        <<inflight[k].options, inflight[k].selected>>)
          /\ UNCHANGED inflight
     ELSE /\ CalledWith(inflight[k].kind, "", <<>>, <<>>, "use",
                        Str(inflight[k].selected),
                        <<inflight[k].options, inflight[k].selected>>)
          /\ inflight' = SubSeq(inflight, 1, k - 1)
                           \o SubSeq(inflight, k + 1, Len(inflight))
  /\ UNCHANGED <<state, view, refs, now, player, pending, edits, allocated>>

---------------------------------------------------------------------------
(* The events of the story viewer. Each is followed by the render it       *)
(* causes and by the effects of that render.                               *)

\* The stories the viewer is given
stories == storyItems(viewState.items)

\* An event of the shown viewer leaves it as next
StoryViewEvent(name, index, next) ==
  /\ player.shown
  /\ Cardinality(Rendered(stories, player, stories, next).scheduled) <= MaxScheduled
  /\ player' = Rendered(stories, player, stories, next)
  /\ CalledWith(name, "", <<>>, <<>>, "", Undefined, <<index>>)
  /\ UNCHANGED <<state, view, refs, inflight, now, pending, edits, allocated>>

\* The Story button of the page: setShowStoryView((v) => !v). StoryView
\* mounts with its initial state and its effects run; over no stories the
\* page hides it again.
setShowStoryView ==
  /\ player' = Rendered(<<>>, StoryViewHidden, stories,
                        [StoryViewHidden EXCEPT !.shown = ~player.shown])
  /\ CalledWith("setShowStoryView", "", <<>>, <<>>, "", Undefined, <<>>)
  /\ UNCHANGED <<state, view, refs, inflight, now, pending, edits, allocated>>

\* goToSlide of the render that showed story selected. pauseAudio pauses the
\* audio element; stopTTS pauses the audio elements of the document, which a
\* narration is not.
goToSlideOf(p, selected, index) ==
  IF index >= 0 /\ index < Len(slidesAt(stories, selected))
  THEN [p EXCEPT !.currentSlideIndex = index, !.isPlaying = FALSE]
  ELSE p

\* nextSlide of the render that showed slide current of story selected
nextSlideOf(p, selected, current) ==
  IF current < Len(slidesAt(stories, selected)) - 1
  THEN goToSlideOf(p, selected, current + 1)
  ELSE IF selected < Len(stories) - 1
  THEN [p EXCEPT !.selectedStoryIndex = selected + 1, !.currentSlideIndex = 0]
  ELSE p

\* The thumbnail of a slide is clicked
goToSlide(index) ==
  /\ index + 1 \in DOMAIN slidesAt(stories, player.selectedStoryIndex)
  /\ StoryViewEvent("goToSlide", index,
                    goToSlideOf(player, player.selectedStoryIndex, index))

\* The button, or ArrowRight
nextSlide ==
  /\ player.shown
  /\ StoryViewEvent("nextSlide", 0,
                    nextSlideOf(player, player.selectedStoryIndex,
                                player.currentSlideIndex))

\* The button, or ArrowLeft. prevStoryData?.slides?.length - 1 || 0 is 0 for
\* one slide and for no slides array, and length - 1 otherwise.
prevSlide ==
  LET selected == player.selectedStoryIndex
      prevStoryData == stories[selected].data
      last == IF HasOwnProperty(prevStoryData, "slides")
              THEN Len(prevStoryData.slides.v) - 1
              ELSE 0
  IN  /\ player.shown
      /\ StoryViewEvent("prevSlide", 0,
            IF player.currentSlideIndex > 0
            THEN goToSlideOf(player, selected, player.currentSlideIndex - 1)
            ELSE IF selected > 0
            THEN [player EXCEPT !.selectedStoryIndex = selected - 1,
                                !.currentSlideIndex = IF last # 0 THEN last ELSE 0]
            ELSE player)

nextStory ==
  /\ player.shown
  /\ StoryViewEvent("nextStory", 0,
       IF player.selectedStoryIndex < Len(stories) - 1
       THEN [player EXCEPT !.selectedStoryIndex = @ + 1, !.currentSlideIndex = 0,
                           !.isPlaying = FALSE]
       ELSE player)

prevStory ==
  /\ player.shown
  /\ StoryViewEvent("prevStory", 0,
       IF player.selectedStoryIndex > 0
       THEN [player EXCEPT !.selectedStoryIndex = @ - 1, !.currentSlideIndex = 0,
                           !.isPlaying = FALSE]
       ELSE player)

\* The Auto-play checkbox changes
setIsAutoPlay(checked) ==
  /\ player.isAutoPlay # checked
  /\ StoryViewEvent("setIsAutoPlay", 0, [player EXCEPT !.isAutoPlay = checked])

\* The audio element of the slide plays to its end: onEnded of this render
audioOnEnded ==
  /\ player.isPlaying
  /\ autoPlayDeps(stories, player).audioUrl # <<>>
  /\ StoryViewEvent("onEnded", 0,
       [player EXCEPT
          !.isPlaying = FALSE,
          !.scheduled = IF player.isAutoPlay
                        THEN @ \cup {[kind |-> "timeout",
                                      selectedStoryIndex |-> player.selectedStoryIndex,
                                      currentSlideIndex |-> player.currentSlideIndex]}
                        ELSE @])

\* Narration t comes to its end. Played to the end, audio.onended sets
\* the timeout of its nextSlide, isAutoPlayMode being true; when the speech
\* cannot be generated or played, speakText rejects and the error is logged.
narrationEnds(t, played) ==
  /\ t \in player.scheduled
  /\ t.kind = "narration"
  /\ StoryViewEvent(IF played THEN "onended" ELSE "onerror", 0,
       [player EXCEPT
          !.scheduled = IF played
                        THEN (@ \ {t}) \cup {[t EXCEPT !.kind = "timeout"]}
                        ELSE @ \ {t}])

\* A timer runs out: setTimeout's callback calls the nextSlide it was made with
timerFires(t) ==
  /\ t \in player.scheduled
  /\ t.kind \in {"timeout", "duration"}
  /\ StoryViewEvent("setTimeout", 0,
       nextSlideOf([player EXCEPT !.scheduled = @ \ {t}],
                   t.selectedStoryIndex, t.currentSlideIndex))

---------------------------------------------------------------------------
(* The arguments the commands are called with.                             *)

\* The ids the allocator can have assigned
IdArgs == {PadStart(NumberToString(n), 4, "0") : n \in 1..MaxCreated}

---------------------------------------------------------------------------
(* The canvas with its renders and its clock: creation, deletion, naming.  *)

Next ==
  \/ Render
  \/ Tick
  \/ \E type \in {"note", "widget"}, name \in {<<>>, <<"a">>, <<" ", "a">>} : createItem(type, name)
  \/ \E itemId \in IdArgs : deleteItemAction(itemId)
  \/ NewItemMenuSelect("note")
  \/ \E title \in {<<"t">>} : setGlobalTitle(title)
  \/ \E name \in {<<"a", " ">>}, itemId \in IdArgs : setItemName(name, itemId)

Spec == Init /\ [][Next]_vars

(* The id allocator: items are created, by command and by menu, and deleted. *)

NextIds ==
  \/ Render
  \/ Tick
  \/ \E type \in {"note", "widget"} : createItem(type, <<>>)
  \/ \E itemId \in IdArgs : DeleteCardClick(itemId)
  \/ NewItemMenuSelect("note")

SpecIds == Init /\ [][NextIds]_vars

(* Creation of every card type. *)

NextTypes ==
  \/ Render
  \/ \E type \in CardTypes \cup {"widget"} : createItem(type, <<>>)
  \/ \E type \in CardTypes : NewItemMenuSelect(type)
  \/ deleteItemAction(Id0001)

SpecTypes == Init /\ [][NextTypes]_vars

(* A note: created, written, deleted. *)

NextNote ==
  \/ Render
  \/ Tick
  \/ createItem("note", <<>>)
  \/ \E itemId \in IdArgs : setNoteField1(<<"h", "e", "l", "l", "o">>, itemId)
  \/ \E itemId \in IdArgs : deleteItemAction(itemId)

SpecNote == Init /\ [][NextNote]_vars

(* One burst of commands between two renders: every command that targets   *)
(* one item, on cards of every type.                                       *)

NextSetters ==
  \/ \E type \in CardTypes : createItem(type, <<>>)
  \/ \E name \in {<<"a", " ">>}, itemId \in IdArgs : setItemName(name, itemId)
  \/ \E subtitle \in {<<"x">>}, itemId \in IdArgs :
        setItemSubtitleOrDescription(subtitle, itemId)
  \/ \E title \in {<<"t">>} : setGlobalTitle(title)
  \/ \E description \in {<<"t">>} : setGlobalDescription(description)
  \/ \E itemId \in IdArgs :
      \/ \E value \in {<<"x">>} : setNoteField1(value, itemId)
      \/ \E value \in {<<"x">>}, withNewline \in {Bool(TRUE), Str(<<"f", "a", "l", "s", "e">>)} :
            appendNoteField1(value, itemId, withNewline)
      \/ clearNoteField1(itemId)
  \/ \E itemId \in IdArgs :
      \/ \E value \in {<<"x">>} : setProjectField1(value, itemId)
      \/ \E value \in {<<"x">>} : setProjectField2(value, itemId)
      \/ \E date \in
              {Str(<<"2", "0", "2", "4", "-", "0", "1", "-", "0", "5">>),
              Str(<<"2", "0", "2", "4", "-", "0", "3">>),
              Str(<<"0", "9", "9", "9">>), Str(<<>>), Str(<<"x">>), Undefined} :
            setProjectField3(date, itemId)
      \/ clearProjectField3(itemId)
      \/ \E text \in {<<"x">>} : addProjectChecklistItem(itemId, Str(text))
      \/ \E text \in {<<"x">>} :
            setProjectChecklistItem(itemId, SubId(1), Str(text), Bool(TRUE))
      \/ removeProjectChecklistItem(itemId, SubId(1))
  \/ \E itemId \in IdArgs :
      \/ \E value \in {<<"x">>} : setEntityField1(value, itemId)
      \/ \E value \in {<<"x">>} : setEntityField2(value, itemId)
      \/ \E tag \in {Tag1} : addEntityField3(tag, itemId)
      \/ \E tag \in {Tag1} : removeEntityField3(tag, itemId)
  \/ \E itemId \in IdArgs :
      \/ \E label \in {<<"x">>}, value \in {150} :
            addChartField1(itemId, Str(label), Num(value))
      \/ \E label \in {<<"x">>} : setChartField1Label(itemId, 0, label)
      \/ \E value \in {150} : setChartField1Value(itemId, 0, value)
      \/ clearChartField1Value(itemId, 0)
      \/ removeChartField1(itemId, 0)
  \/ \E itemId \in IdArgs :
      \/ \E name \in {<<"x">>} : setCharacterName(name, itemId)
      \/ \E description \in {<<"x">>} : setCharacterDescription(description, itemId)
      \/ \E trait \in {<<"x">>} : addCharacterTrait(trait, itemId)
      \/ \E trait \in {Adventurous} : removeCharacterTrait(trait, itemId)
      \/ \E image_url \in {<<"x">>} : setCharacterImageUrl(image_url, itemId)
      \/ \E source_comic \in {<<"x">>} : setCharacterSourceComic(source_comic, itemId)
      \/ \E character_name \in {<<"x">>} : generateCharacterImage(character_name, itemId)
  \/ \E itemId \in IdArgs :
      \/ \E title \in {<<"x">>} : setStoryTitle(title, itemId)
      \/ \E caption \in {<<"x">>} : addStorySlide(itemId, caption, Undefined)
      \/ \E caption \in {<<"x">>} :
            setStorySlideCaption(itemId, SlidePrefix \o NumberToString(now), caption)
      \/ setStorySlideDuration(itemId, SlidePrefix \o NumberToString(now), 1)
      \/ removeStorySlide(itemId, SlidePrefix \o NumberToString(now))
  \/ \E k \in 1..MaxInflight, image_url \in {<<"x">>} :
        generateCharacterImageSucceeds(k, image_url)
  \/ \E k \in 1..MaxInflight,
          message \in {<<"U", "n", "k", "n", "o", "w", "n", " ", "e", "r", "r", "o", "r">>} :
        generateCharacterImageFails(k, message)
  \/ processUploadedComic

SpecSetters == Init /\ [][NextSetters]_vars

(* The checklist of one project: entries added, set and removed, with       *)
(* renders between the commands.                                            *)

\* The optional arguments of setProjectChecklistItem: <<text, done>>
SetOpts ==
  {<<Str(<<"z">>), Undefined>>,
   <<Undefined, Bool(TRUE)>>,
   <<Str(<<"z">>), Bool(TRUE)>>,
   <<Undefined, Str(<<"y", "e", "s">>)>>,
   <<Undefined, Str(<<"T", "r", "u", "e">>)>>,
   <<Undefined, Str(<<"F", "A", "L", "S", "E">>)>>}

NextChecklist ==
  \/ Render
  \/ createItem("project", <<>>)
  \/ \E text \in {<<"a">>, <<"b">>} : addProjectChecklistItem(Id0001, Str(text))
  \/ \E checklistItemId \in {SubId(2), <<"0">>, <<"1">>, <<"2">>}, o \in SetOpts :
        setProjectChecklistItem(Id0001, checklistItemId, o[1], o[2])
  \/ removeProjectChecklistItem(Id0001, SubId(1))

SpecChecklist == InitCard /\ [][NextChecklist]_vars

(* The tags of one entity: added and removed by command, toggled on the     *)
(* rendered card.                                                           *)

NextTags ==
  \/ Render
  \/ createItem("entity", <<>>)
  \/ \E tag \in {Tag1, <<"x">>} : addEntityField3(tag, Id0001)
  \/ \E tag \in {Tag1, <<"x">>} : removeEntityField3(tag, Id0001)
  \/ toggleTag(Id0001, Tag1)

SpecTags == InitCard /\ [][NextTags]_vars

(* The traits of one character. *)

NextTraits ==
  \/ Render
  \/ createItem("character", <<>>)
  \/ \E trait \in {Adventurous, <<"x">>} : addCharacterTrait(trait, Id0001)
  \/ \E trait \in {Adventurous, <<"x">>} : removeCharacterTrait(trait, Id0001)

SpecTraits == InitCard /\ [][NextTraits]_vars

(* A character whose image is generated while other commands run: the     *)
(* service answers, or fails, at any later moment.                         *)

NextImage ==
  \/ Render
  \/ \E type \in {"character", "note"} : createItem(type, <<>>)
  \/ deleteItemAction(Id0001)
  \/ \E name \in {<<"x">>} : setCharacterName(name, Id0001)
  \/ \E character_name \in {<<"x">>}, itemId \in IdArgs :
        generateCharacterImage(character_name, itemId)
  \/ \E k \in 1..MaxInflight, image_url \in {<<"u">>} :
        generateCharacterImageSucceeds(k, image_url)
  \/ \E k \in 1..MaxInflight,
          message \in
            {<<"F", "a", "i", "l", "e", "d", " ", "t", "o", " ", "g", "e", "n", "e",
               "r", "a", "t", "e", " ", "c", "h", "a", "r", "a", "c", "t", "e", "r",
               " ", "i", "m", "a", "g", "e">>,
             <<"H", "T", "T", "P", " ", "e", "r", "r", "o", "r", "!", " ", "s", "t",
               "a", "t", "u", "s", ":", " ", "5", "0", "0">>,
             <<"U", "n", "k", "n", "o", "w", "n", " ", "e", "r", "r", "o", "r">>} :
        generateCharacterImageFails(k, message)

SpecImage == Init /\ [][NextImage]_vars

(* A story whose slides the agent and the editor of its card both change,  *)
(* with uploads and narration requests that answer at any later moment.    *)

NextStory ==
  \/ Render
  \/ createItem("story", <<>>)
  \/ \E caption \in {<<"x">>} : addStorySlide(Id0001, caption, Undefined)
  \/ \E slideId \in {SlidePrefix \o NumberToString(0)} :
       \/ setStorySlideCaption(Id0001, slideId, <<"y">>)
       \/ removeSlide(Id0001, slideId)
       \/ updateSlide(Id0001, slideId, "caption", <<"z">>)
       \/ \E key \in {"imageUrl", "audioUrl"} : handleUpload(key, Id0001, slideId)
  \/ addSlide(Id0001)
  \/ \E k \in 1..MaxInflight, result \in {<<"d">>} : readerOnload(k, result)
  \/ speakText(Id0001)
  \/ \E k \in 1..MaxInflight :
       \/ \E audioUrl \in {<<"u">>} : generateTTSResolves(k, audioUrl)
       \/ generateTTSRejects(k)

SpecStory == InitCard /\ [][NextStory]_vars

(* The human answers a prompt while items are created and deleted.         *)

NextChoose ==
  \/ Render
  \/ \E type \in {"note", "project"} : createItem(type, <<>>)
  \/ deleteItemAction(Id0001)
  \/ \E name \in {"choose_item", "choose_card_type"} : renderAndWaitForResponse(name)
  \/ \E k \in 1..MaxInflight :
       \/ promptRenders(k)
       \/ \E o \in 1..5 : selectOnChange(k, o)
       \/ cancelClick(k)
       \/ useClick(k)

SpecChoose == Init /\ [][NextChoose]_vars

(* Projects and charts created in quick succession, and entries added to   *)
(* their lists in quick succession.                                        *)

NextRapid ==
  \/ Render
  \/ \E type \in {"project", "chart"} : createItem(type, <<"a">>)
  \/ \E text \in {<<"a">>, <<"b">>} :
       \/ addProjectChecklistItem(Id0001, Str(text))
       \/ addChartField1(SubId(2), Str(text), Undefined)

SpecRapid == InitCard /\ [][NextRapid]_vars

(* The metrics of one chart: added, set and cleared with values inside and *)
(* outside 0..100.                                                         *)

NextChart ==
  \/ Render
  \/ createItem("chart", <<>>)
  \/ \E label \in {<<"a">>, <<"b">>}, value \in {Num(150), Num(0 - 10), Undefined} :
        addChartField1(Id0001, Str(label), value)
  \/ \E value \in {150, 0 - 10, 50} : setChartField1Value(Id0001, 0, value)
  \/ \E index \in {0, 1} : clearChartField1Value(Id0001, index)

SpecChart == InitCard /\ [][NextChart]_vars

(* Unnamed items created again and again while the clock advances.         *)

NextUnnamed ==
  \/ Render
  \/ Tick
  \/ \E type \in {"note", "project"}, name \in {<<>>, <<" ">>} : createItem(type, name)
  \/ deleteItemAction(Id0001)

SpecUnnamed == Init /\ [][NextUnnamed]_vars

(* The story viewer over two stories, the first without slides: stories    *)
(* and slides are made while the viewer is hidden, and the viewer is shown *)
(* once the page has rendered them.                                        *)

\* The captured indices a scheduled callback can hold
ScheduledArgs ==
  [kind : {"narration", "timeout", "duration"},
   selectedStoryIndex : 0..(MaxCreated - 1),
   currentSlideIndex : (0 - 1)..MaxCardEdits]

NextViewer ==
  \/ Render
  \/ ~player.shown
       /\ createItem("story", IF allocated = <<>> THEN <<"a">> ELSE <<"b">>)
  \/ ~player.shown /\ addStorySlide(SubId(2), <<"x">>, Undefined)
  \/ ~player.shown
       /\ handleUpload("audioUrl", SubId(2), SlidePrefix \o NumberToString(0))
  \/ ~player.shown /\ \E k \in 1..MaxInflight : readerOnload(k, <<"d">>)
  \/ pending = 0 /\ setShowStoryView
  \/ \E index \in 0..1 : goToSlide(index)
  \/ nextSlide
  \/ prevSlide
  \/ nextStory
  \/ prevStory
  \/ \E checked \in BOOLEAN : setIsAutoPlay(checked)
  \/ audioOnEnded
  \/ \E t \in ScheduledArgs :
       \/ \E played \in BOOLEAN : narrationEnds(t, played)
       \/ timerFires(t)

SpecViewer == InitCard /\ [][NextViewer]_vars

---------------------------------------------------------------------------
(* Properties.                                                             *)

\* C1: in the scenario that starts from the empty document, creating a note
\* named "" returns the id "0001"; setting its field1 to "hello" leaves item
\* 0001 with data.field1 = "hello"; deleting "0001" leaves no item and
\* lastAction = "deleted:0001"; deleting "0001" again leaves
\* lastAction = "not_found:0001".
C1_Scenario ==
  /\ call.step = 1 =>
       /\ call.ret = Str(<<"0", "0", "0", "1">>)
       /\ Len(state.items) = 1
       /\ state.items[1].id = <<"0", "0", "0", "1">>
       /\ state.items[1].type = "note"
  /\ call.step = 2 =>
       /\ Len(state.items) = 1
       /\ state.items[1].id = <<"0", "0", "0", "1">>
       /\ state.items[1].data.field1 = Str(<<"h", "e", "l", "l", "o">>)
  /\ call.step = 3 =>
       /\ state.items = <<>>
       /\ state.lastAction =
            <<"d", "e", "l", "e", "t", "e", "d", ":", "0", "0", "0", "1">>
  /\ call.step = 4 =>
       /\ state.items = <<>>
       /\ state.lastAction =
            <<"n", "o", "t", "_", "f", "o", "u", "n", "d", ":", "0", "0", "0", "1">>

\* The scenario has run to its end: the second deletion of "0001".
C1_Witness == call.step = 4 /\ call.name = "deleteItem"

\* C2: no two items of the document have the same id, and the ids the
\* allocator assigns are strictly increasing in allocation order, whether or
\* not the earlier items are still in the document.
C2_UniqueIncreasingIds ==
  /\ \A i, j \in DOMAIN state.items :
        i # j => state.items[i].id # state.items[j].id
  /\ \A i, j \in DOMAIN allocated :
        i < j => ParseInt(allocated[i]).value < ParseInt(allocated[j]).value

\* An id was allocated after the item of an earlier id was deleted.
C2_Witness ==
  /\ Len(allocated) = 2
  /\ ~HasItem(state.items, allocated[1])
  /\ HasItem(state.items, allocated[2])

\* C3: itemsCreated never decreases, and it is at least the number of the id
\* of every item of the document.
C3_CounterMonotone ==
  [][/\ state'.itemsCreated >= state.itemsCreated
     /\ \A i \in DOMAIN state'.items :
           state'.itemsCreated >= ParseInt(state'.items[i].id).value]_vars

\* The counter is ahead of the number of items: an item was deleted.
C3_Witness ==
  /\ state.itemsCreated = 2
  /\ Len(state.items) = 1
  /\ state.items[1].id = <<"0", "0", "0", "2">>

\* C4: when createItem is called twice in a row with the same type and the same
\* non-empty trimmed name, the second call less than the throttle window after
\* the first, both calls return the same id and the second adds no item.
C4_ThrottledCreateSameId ==
  [][(/\ call'.n # call.n
      /\ call.name = "createItem"
      /\ call'.name = "createItem"
      /\ call'.type = call.type
      /\ call'.arg = call.arg
      /\ call.arg # <<>>
      /\ call'.ts - call.ts < ThrottleWindowMs)
     => (call'.ret = call.ret /\ state'.items = state.items)]_vars

\* C5: when the document has an item of the requested type whose trimmed name
\* is the requested non-empty trimmed name, createItem returns the id of such
\* an item and leaves items, itemsCreated and lastAction as they were.
C5_ExistingMatchReturned ==
  [][(/\ call'.n # call.n
      /\ call'.name = "createItem"
      /\ call'.arg # <<>>
      /\ FindExisting(state.items, call'.type, call'.arg) # 0)
     => (/\ state'.items = state.items
         /\ state'.itemsCreated = state.itemsCreated
         /\ state'.lastAction = state.lastAction
         /\ \E i \in DOMAIN state.items :
               /\ state.items[i].type = call'.type
               /\ Trim(state.items[i].name) = call'.arg
               /\ call'.ret = Str(state.items[i].id))]_vars

\* C6: a createItem call that changes items appends exactly one item, of the
\* requested type and with the default data of its type, records
\* "created:<id>" with the id of that item, and returns that id.
C6_CreateAppendsOne ==
  [][(/\ call'.n # call.n
      /\ call'.name = "createItem"
      /\ state'.items # state.items)
     => (/\ Len(state'.items) = Len(state.items) + 1
         /\ SubSeq(state'.items, 1, Len(state.items)) = state.items
         /\ LET item == state'.items[Len(state'.items)]
            IN  /\ item.type = call'.type
                /\ item.data = defaultDataFor(call'.type)
                /\ state'.lastAction = <<"c", "r", "e", "a", "t", "e", "d", ":">> \o item.id
                /\ call'.ret = Str(item.id))]_vars

\* createItem has appended a second item to the document.
C6_Witness ==
  /\ call.name = "createItem"
  /\ call.path = "created"
  /\ Len(state.items) = 2
  /\ call.ret = Str(state.items[2].id)

\* C7: after a deleteItem call, what the call returned is the lastAction the
\* call recorded in the document.
C7_DeleteReturnsLastAction ==
  call.name = "deleteItem" => call.ret = Str(state.lastAction)

\* The commands that take the id of the item they set
PerItemSetters ==
  {"setItemName", "setItemSubtitleOrDescription",
   "setNoteField1", "appendNoteField1", "clearNoteField1",
   "setProjectField1", "setProjectField2", "setProjectField3", "clearProjectField3",
   "addProjectChecklistItem", "setProjectChecklistItem", "removeProjectChecklistItem",
   "setEntityField1", "setEntityField2", "addEntityField3", "removeEntityField3",
   "addChartField1", "setChartField1Label", "setChartField1Value",
   "clearChartField1Value", "removeChartField1",
   "setCharacterName", "setCharacterDescription", "addCharacterTrait",
   "removeCharacterTrait", "setCharacterImageUrl", "setCharacterSourceComic",
   "generateCharacterImage",
   "setStoryTitle", "addStorySlide", "setStorySlideCaption", "setStorySlideDuration",
   "removeStorySlide"}

\* C8: a per-item setter called with an itemId that no item of the document
\* has leaves the document as it was: items, globalTitle, globalDescription,
\* lastAction and itemsCreated.
C8_MissingItemNoChange ==
  [][(/\ call'.n # call.n
      /\ call'.name \in PerItemSetters
      /\ ~HasItem(state.items, call'.itemId))
     => state' = state]_vars

\* A setter of each family has run on a document that has an item, with an id
\* that no item has.
C8_Witness ==
  /\ call.name \in {"setItemName", "addEntityField3", "addProjectChecklistItem",
                    "addChartField1", "setCharacterName", "addStorySlide"}
  /\ state.items # <<>>
  /\ ~HasItem(state.items, call.itemId)

\* C9: a command other than deleteItem keeps every item of the document, each
\* at its position and with its id and its type; items it adds come after them.
C9_IdAndTypeKept ==
  [][(call'.n # call.n /\ call'.name # "deleteItem")
     => (/\ Len(state'.items) >= Len(state.items)
         /\ \A i \in DOMAIN state.items :
               /\ state'.items[i].id = state.items[i].id
               /\ state'.items[i].type = state.items[i].type)]_vars

\* A setter has changed the first of two items.
C9_Witness ==
  /\ call.name \in PerItemSetters
  /\ Len(state.items) = 2
  /\ call.itemId = state.items[1].id
  /\ \/ state.items[1].data # defaultDataFor(state.items[1].type)
     \/ state.items[1].name # <<>>

\* C10: the data of every item has exactly the fields that the default data of
\* its type has.
C10_DataShapeKept ==
  \A i \in DOMAIN state.items :
     DOMAIN state.items[i].data = DOMAIN defaultDataFor(state.items[i].type)

\* C11: in every reachable state the field1 of every chart item is a sequence
\* of metric entries; no command replaces it with a string.
C11_ChartField1IsMetrics ==
  \A i \in DOMAIN state.items :
     state.items[i].type = "chart" => state.items[i].data.field1.t = "objects"

\* C12: the type of every item of the document is one of project, entity,
\* note, chart, character, story, whatever type createItem was given.
C12_TypeIsCardType ==
  \A i \in DOMAIN state.items : state.items[i].type \in CardTypes

\* C13: in every reachable state the field2 of every project item and of
\* every entity item is one of "", "Option A", "Option B", "Option C".
C13_Field2IsOption ==
  \A i \in DOMAIN state.items :
     state.items[i].type \in {"project", "entity"} =>
       /\ state.items[i].data.field2.t = "string"
       /\ state.items[i].data.field2.v \in
            {<<>>} \cup {<<"O", "p", "t", "i", "o", "n", " ", c>> : c \in {"A", "B", "C"}}

\* C14: setProjectField3 on a project stores an input of the form YYYY-MM-DD
\* unchanged, stores an input that date parsing accepts as a YYYY-MM-DD string,
\* and leaves the whole document unchanged for an input that cannot be parsed,
\* the empty string and a missing argument included; a command other than
\* clearProjectField3 never sets a project's field3 to "".
C14_DateNormalized ==
  [][/\ (/\ call'.n # call.n
         /\ call'.name = "setProjectField3"
         /\ HasItem(state.items, call'.itemId)
         /\ state.items[FindItem(state.items, call'.itemId)].type = "project")
        => LET date == call'.opts[1]
               field3 == state'.items[FindItem(state.items, call'.itemId)].data.field3
           IN  IF date.t = "string" /\ IsIsoDate(date.v)
               THEN field3 = date
               ELSE IF date.t = "string" /\ DateParse(date.v) # <<>>
               THEN field3.t = "string" /\ IsIsoDate(field3.v)
               ELSE state' = state
     /\ (call'.n # call.n /\ call'.name # "clearProjectField3")
        => \A i \in DOMAIN state.items :
              (/\ state.items[i].type = "project"
               /\ state.items[i].data.field3 # Str(<<>>))
              => state'.items[i].data.field3 # Str(<<>>)]_vars

\* The checklist of the item itemId in a document, a project's field4
Field4Of(doc, itemId) == doc.items[FindItem(doc.items, itemId)].data.field4.v

\* The position of the entry a checklist identifier names: the entry with that
\* id; else, for a bare non-negative integer n, position n counted from 0
\* when the list has it, else position n counted from 1 when the list has it;
\* else 0, for no entry.
NamedEntry(list, target) ==
  IF \E k \in DOMAIN list : list[k].id = target
  THEN CHOOSE k \in DOMAIN list : list[k].id = target
  ELSE IF target # <<>> /\ \A c \in DOMAIN target : IsDigit(target[c])
  THEN LET n == DigitsValue(target)
       IN  IF n + 1 \in DOMAIN list THEN n + 1
           ELSE IF n \in DOMAIN list THEN n
           ELSE 0
  ELSE 0

C16_OneIsFirstEntry ==
  [][(/\ call'.n # call.n
      /\ call'.name = "setProjectChecklistItem"
      /\ call'.arg = <<"1">>
      /\ call'.opts[1].t = "string"
      /\ HasItem(state.items, call'.itemId)
      /\ state.items[FindItem(state.items, call'.itemId)].type = "project"
      /\ Len(Field4Of(state, call'.itemId)) >= 2)
     => /\ Field4Of(state', call'.itemId)[1].text = call'.opts[1].v
        /\ \A j \in DOMAIN Field4Of(state, call'.itemId) :
              j # 1 => Field4Of(state', call'.itemId)[j] = Field4Of(state, call'.itemId)[j]]_vars

\* C17: a command with a boolean argument reads the strings "true" and
\* "false", in any letter case, as the booleans, and any other value that is
\* not a boolean as a missing argument: appendNoteField1 on a note puts a
\* newline before the value exactly when withNewline reads as true, and
\* setProjectChecklistItem sets done to what done reads as and leaves it as it
\* was when done reads as missing.
C17_BooleanStrings ==
  [][/\ (/\ call'.n # call.n
         /\ call'.name = "appendNoteField1"
         /\ HasItem(state.items, call'.itemId)
         /\ state.items[FindItem(state.items, call'.itemId)].type = "note")
        => LET i == FindItem(state.items, call'.itemId)
               withNewline == toBool(call'.opts[1])
           IN  state'.items[i].data.field1 =
                 Str(state.items[i].data.field1.v
                     \o (IF withNewline = Bool(TRUE) THEN <<"\n">> ELSE <<>>)
                     \o call'.arg)
     /\ (/\ call'.n # call.n
         /\ call'.name = "setProjectChecklistItem"
         /\ HasItem(state.items, call'.itemId)
         /\ state.items[FindItem(state.items, call'.itemId)].type = "project"
         /\ NamedEntry(Field4Of(state, call'.itemId), call'.arg) # 0)
        => LET k == NamedEntry(Field4Of(state, call'.itemId), call'.arg)
               done == toBool(call'.opts[2])
           IN  Field4Of(state', call'.itemId)[k].done =
                 IF done.t = "boolean" THEN done.v
                 ELSE Field4Of(state, call'.itemId)[k].done]_vars

\* C18: after addEntityField3, removeEntityField3 or toggleTag on an entity,
\* field3 has no duplicate; adding a tag that is present and removing a tag
\* that is absent leave field3 as it was; and adding the same tag once more
\* changes nothing.
C18_TagSetSemantics ==
  [][(/\ call'.n # call.n
      /\ call'.name \in {"addEntityField3", "removeEntityField3", "toggleTag"}
      /\ HasItem(state.items, call'.itemId)
      /\ state.items[FindItem(state.items, call'.itemId)].type = "entity")
     => LET i == FindItem(state.items, call'.itemId)
            before == state.items[i].data.field3
            after == state'.items[i].data.field3
        IN  /\ after.t = "array"
            /\ (\A j, k \in DOMAIN after.v : j # k => after.v[j] # after.v[k])
            /\ (call'.name = "addEntityField3" /\ Includes(before.v, call'.arg))
                 => after = before
            /\ (call'.name = "removeEntityField3" /\ ~Includes(before.v, call'.arg))
                 => after = before
            /\ call'.name = "addEntityField3"
                 => addEntityField3Updater(state'.items[i].data, call'.arg)
                      = state'.items[i].data]_vars

\* A tag was added that was present: it is not the last of the two tags.
C18_Witness ==
  /\ call.name = "addEntityField3"
  /\ Len(state.items) = 1
  /\ state.items[1].type = "entity"
  /\ Len(state.items[1].data.field3.v) = 2
  /\ state.items[1].data.field3.v[1] = call.arg

\* C19: in every reachable state the selected tags of every entity are among
\* its available tags: field3 is a subset of field3_options.
C19_TagsAmongOptions ==
  \A i \in DOMAIN state.items :
     state.items[i].type = "entity" =>
       \A j \in DOMAIN state.items[i].data.field3.v :
          Includes(state.items[i].data.field3_options.v,
                   state.items[i].data.field3.v[j])

\* C20: after addCharacterTrait or removeCharacterTrait on a character, no
\* trait occurs twice; adding a trait that is present leaves the data as it
\* was, and removing a trait that is absent leaves the traits as they were.
C20_TraitsUnique ==
  [][(/\ call'.n # call.n
      /\ call'.name \in {"addCharacterTrait", "removeCharacterTrait"}
      /\ HasItem(state.items, call'.itemId)
      /\ state.items[FindItem(state.items, call'.itemId)].type = "character")
     => LET i == FindItem(state.items, call'.itemId)
            before == state.items[i].data.traits
            after == state'.items[i].data.traits
        IN  /\ after.t = "array"
            /\ (\A j, k \in DOMAIN after.v : j # k => after.v[j] # after.v[k])
            /\ (call'.name = "addCharacterTrait" /\ Includes(before.v, call'.arg))
                 => state'.items[i].data = state.items[i].data
            /\ (call'.name = "removeCharacterTrait" /\ ~Includes(before.v, call'.arg))
                 => after = before]_vars

\* A trait was added that was present: it is not the last of the two traits.
C20_Witness ==
  /\ call.name = "addCharacterTrait"
  /\ Len(state.items) = 1
  /\ state.items[1].type = "character"
  /\ Len(state.items[1].data.traits.v) = 2
  /\ state.items[1].data.traits.v[1] = call.arg

\* C21: when the image service fails (the request is rejected, the response
\* is not ok, or it carries no success flag with a url), generateCharacterImage
\* returns a string, "Error generating image for <name>: " followed by a
\* message, it does not throw, and the document is the one it was.
C21_FailureLeavesDocument ==
  [][(/\ call'.n # call.n
      /\ call'.name = "generateCharacterImage"
      /\ call'.path = "error")
     => /\ state' = state
        /\ call'.ret.t = "string"
        /\ Len(call'.ret.v) > Len(ErrorText) + Len(call'.arg) + 2
        /\ SubSeq(call'.ret.v, 1, Len(ErrorText) + Len(call'.arg) + 2)
             = ErrorText \o call'.arg \o <<":", " ">>]_vars

\* The generation for a character of the document has failed. Two handlers
\* have run since the last render, this one and one that added an item, so
\* the item was added while the call, made before that render, was suspended.
C21_Witness ==
  /\ call.name = "generateCharacterImage"
  /\ call.path = "error"
  /\ pending = 2
  /\ Len(state.items) = Len(viewState.items) + 1
  /\ FindItem(state.items, call.itemId) # 0
  /\ state.items[FindItem(state.items, call.itemId)].type = "character"

\* C22: a generateCharacterImage call leaves the document as it is when it
\* is made, and when the service answers it changes at most the image_url of
\* the data of the items with the given id: every other field of every item,
\* the order of the items and the global fields are those of the document as
\* the other commands left it.
C22_OneMutationImageOnly ==
  [][(call'.n # call.n /\ call'.name = "generateCharacterImage")
     => IF call'.path = "success"
        THEN /\ [state' EXCEPT !.items = state.items] = state
             /\ Len(state'.items) = Len(state.items)
             /\ \A i \in DOMAIN state.items :
                  /\ [state'.items[i] EXCEPT !.data = state.items[i].data]
                       = state.items[i]
                  /\ DOMAIN state'.items[i].data = DOMAIN state.items[i].data
                  /\ \A key \in DOMAIN state.items[i].data :
                       state'.items[i].data[key] # state.items[i].data[key]
                         => /\ key = "image_url"
                            /\ state.items[i].id = call'.itemId
        ELSE state' = state]_vars

\* The service has answered for a character. Two handlers have run since
\* the last render, this one and one that added an item, so the item was
\* added while the call, made before that render, was suspended: the item is
\* there, and the image.
C22_Witness ==
  /\ call.name = "generateCharacterImage"
  /\ call.path = "success"
  /\ FindItem(state.items, call.itemId) # 0
  /\ pending = 2
  /\ state.items[FindItem(state.items, call.itemId)].type = "character"
  /\ state.items[FindItem(state.items, call.itemId)].data.image_url = Str(<<"u">>)
  /\ Len(state.items) = Len(viewState.items) + 1

\* The slides of the items with this id in a document
SlidesOf(s, itemId) ==
  {s.items[i].data.slides.v :
     i \in {j \in DOMAIN s.items :
              s.items[j].id = itemId /\ HasList(s.items[j].data, "slides")}}

\* C23: a mutation made by the editor of a story card keeps what the
\* mutations before it did: every slide of the document it is applied to is
\* still there afterwards, except the one removeSlide removes, and with the
\* same fields, except the one updateSlide sets.
C23_EditorKeepsEarlierMutations ==
  [][(call'.n # call.n /\ call'.name \in {"addSlide", "removeSlide", "updateSlide"})
     => \A i \in DOMAIN state.items :
          (state.items[i].id = call'.itemId /\ HasList(state.items[i].data, "slides"))
          => \A j \in DOMAIN state.items[i].data.slides.v :
               LET before == state.items[i].data.slides.v[j]
                   after == state'.items[i].data.slides.v
               IN  \/ call'.name = "removeSlide" /\ before.id = call'.arg
                   \/ \E a \in DOMAIN after :
                        /\ after[a].id = before.id
                        /\ \A key \in DOMAIN before :
                             after[a][key] # before[key]
                               => /\ call'.name = "updateSlide"
                                  /\ before.id = call'.arg
                                  /\ key = call'.opts[1]]_vars

\* C25: a narration request that succeeds for a story that has slides leaves
\* its audio url in the audioUrl of one of them, and one that fails returns a
\* string.
C25_AudioWrittenBack ==
  [][(call'.n # call.n /\ call'.name = "generateTTS")
     => /\ call'.path = "success"
           => \A slides \in SlidesOf(state', call'.itemId) :
                slides # <<>>
                  => \E j \in DOMAIN slides : slides[j].audioUrl = call'.ret.v
        /\ call'.path = "error" => call'.ret.t = "string"]_vars

\* C24: a choose_item or choose_card_type call delivers nothing while it
\* waits; Cancel delivers ""; the confirm button, pressed when the select
\* shows a choice, delivers a value that is not "" and is among the options
\* the prompt displays, and pressed without a choice delivers nothing.
C24_PromptDelivers ==
  [][(call'.n # call.n /\ call'.name \in {"choose_item", "choose_card_type"})
     => /\ call'.path = "awaiting" => call'.ret = Undefined
        /\ call'.path = "cancel" => call'.ret = Str(<<>>)
        /\ call'.path = "use"
             => IF call'.opts[2] = <<>>
                THEN call'.ret = Undefined
                ELSE /\ call'.ret.t = "string"
                     /\ call'.ret.v # <<>>
                     /\ \E o \in DOMAIN call'.opts[1] :
                          call'.opts[1][o] = call'.ret.v]_vars

\* C26: addProjectChecklistItem with a text that, trimmed, is not empty and
\* is the trimmed text of an entry of the checklist of that project returns
\* the id of such an entry and leaves the document as it is.
C26_DuplicateTextReturned ==
  [][(/\ call'.n # call.n
      /\ call'.name = "addProjectChecklistItem"
      /\ call'.arg # <<>>
      /\ FindItem(state.items, call'.itemId) # 0
      /\ state.items[FindItem(state.items, call'.itemId)].type = "project"
      /\ \E k \in DOMAIN Field4Of(state, call'.itemId) :
           Trim(Field4Of(state, call'.itemId)[k].text) = call'.arg)
     => /\ state' = state
        /\ \E k \in DOMAIN Field4Of(state, call'.itemId) :
             /\ Trim(Field4Of(state, call'.itemId)[k].text) = call'.arg
             /\ call'.ret = Str(Field4Of(state, call'.itemId)[k].id)]_vars

\* The list under key of item itemId of a document, <<>> when it has none
ListOf(doc, itemId, type, key) ==
  LET i == FindItem(doc.items, itemId)
  IN  IF i # 0 /\ doc.items[i].type = type /\ HasList(doc.items[i].data, key)
      THEN doc.items[i].data[key].v
      ELSE <<>>

C28_MetricValuesClamped ==
  [][call'.n # call.n
     => /\ \A i \in DOMAIN state'.items :
             HasList(state'.items[i].data, "field1")
             => \A k \in DOMAIN state'.items[i].data.field1.v :
                  LET stored == state'.items[i].data.field1.v[k].value
                  IN  \/ stored = [t |-> "string", v |-> <<>>]
                      \/ stored.t = "number" /\ stored.v >= 0 /\ stored.v <= 100
        /\ \A i \in DOMAIN state.items :
             (state.items[i].id = call'.itemId /\ state.items[i].type = "chart")
             => LET before == state.items[i].data.field1.v
                    after == state'.items[i].data.field1.v
                    v == call'.opts[Len(call'.opts)]
                    index == call'.opts[1]
                IN  /\ (call'.name = "addChartField1" /\ call'.path = "")
                         => /\ Len(after) = Len(before) + 1
                            /\ after[Len(after)].value =
                                 IF v.t = "number"
                                 THEN [t |-> "number",
                                       v |-> IF v.v > 100 THEN 100
                                             ELSE IF v.v < 0 THEN 0 ELSE v.v]
                                 ELSE [t |-> "string", v |-> <<>>]
                    /\ (call'.name = "setChartField1Value" /\ index + 1 \in DOMAIN before)
                         => after[index + 1].value =
                              [t |-> "number",
                               v |-> IF v > 100 THEN 100 ELSE IF v < 0 THEN 0 ELSE v]
                    /\ (call'.name = "clearChartField1Value" /\ index + 1 \in DOMAIN before)
                         => /\ after[index + 1].value = [t |-> "string", v |-> <<>>]
                            /\ after[index + 1].value # [t |-> "number", v |-> 0]]_vars

\* A chart whose first metric has just been cleared and whose second metric
\* holds 0, stored for -10.
C28_Witness ==
  /\ call.name = "clearChartField1Value"
  /\ call.opts = <<0>>
  /\ Len(state.items) = 1
  /\ state.items[1].type = "chart"
  /\ Len(state.items[1].data.field1.v) = 2
  /\ state.items[1].data.field1.v[1].value = Str(<<>>)
  /\ state.items[1].data.field1.v[2].value = Num(0)

\* C29: an id that createItem returns, when it is not "", is the id of an
\* item of the document as the call leaves it.
C29_ReturnedIdPresent ==
  [][(/\ call'.n # call.n
      /\ call'.name = "createItem"
      /\ call'.ret.t = "string"
      /\ call'.ret.v # <<>>)
     => HasItem(state'.items, call'.ret.v)]_vars

\* C30: once the page has rendered a document that has no item, no title
\* and no description, a createItem that the throttle does not answer adds an
\* item, and a deleteItem returns "not_found:" and the id.
C30_SnapshotFollowsDocument ==
  [][(/\ call'.n # call.n
      /\ pending = 0
      /\ state.items = <<>>
      /\ state.globalTitle = <<>>
      /\ state.globalDescription = <<>>)
     => /\ (/\ call'.name = "createItem"
            /\ \/ lastCreationRef = <<>>
               \/ call'.ts - lastCreationRef[1].ts >= ThrottleWindowMs)
           => /\ Len(state'.items) = 1
              /\ call'.ret = Str(state'.items[1].id)
        /\ call'.name = "deleteItem"
           => call'.ret = Str(NotFoundPrefix \o call'.itemId)]_vars

\* C31: a createItem with a name that is empty once trimmed, coming less
\* than 5000 ms after the createItem that last created an item, of the same
\* type and also unnamed, returns the id of that item and creates nothing, and
\* the time of the last creation stays what it was; any other unnamed
\* createItem appends one item with an id never used before, returns that id
\* and becomes the last creation. In particular, of two calls in a row the
\* second is answered with the id of the first when less than 5000 ms lie
\* between them and creates an item of its own when 5000 ms or more do.
C31_UnnamedThrottle ==
  [][(call'.n # call.n /\ call'.name = "createItem" /\ call'.arg = <<>>)
     => /\ IF /\ lastCreationRef # <<>>
              /\ lastCreationRef[1].type = call'.type
              /\ lastCreationRef[1].name = <<>>
              /\ call'.ts - lastCreationRef[1].ts < ThrottleWindowMs
           THEN /\ call'.ret = Str(lastCreationRef[1].id)
                /\ state' = state
                /\ lastCreationRef' = lastCreationRef
           ELSE /\ Len(state'.items) = Len(state.items) + 1
                /\ SubSeq(state'.items, 1, Len(state.items)) = state.items
                /\ state'.items[Len(state'.items)].type = call'.type
                /\ call'.ret = Str(state'.items[Len(state'.items)].id)
                /\ \A k \in DOMAIN allocated : allocated[k] # call'.ret.v
                /\ lastCreationRef'[1].ts = call'.ts
                /\ lastCreationRef'[1].id = call'.ret.v
        /\ (/\ call.name = "createItem"
            /\ call.path = "created"
            /\ call.type = call'.type
            /\ call.arg = <<>>)
           => IF call'.ts - call.ts < ThrottleWindowMs
              THEN call'.ret = call.ret /\ state'.items = state.items
              ELSE /\ call'.ret # call.ret
                   /\ Len(state'.items) = Len(state.items) + 1]_vars

\* An unnamed item has been created one whole window after the start, next to
\* an unnamed item of the same type.
C31_Witness ==
  /\ call.name = "createItem"
  /\ call.path = "created"
  /\ call.arg = <<>>
  /\ call.ts = ThrottleWindowMs
  /\ Len(state.items) = 2
  /\ state.items[1].type = state.items[2].type
  /\ state.items[1].name = <<>>
  /\ state.items[2].name = <<>>
  /\ lastCreationRef[1].id = state.items[2].id


\* C32: when addChartField1 has added a metric to a chart and the next command
\* is addChartField1 on the same chart with the same trimmed label, less than
\* SubThrottleWindowMs later, the second call adds no metric, whatever the
\* values of the two calls are.
C32_OneMetricPerLabel ==
  [][(/\ call'.n # call.n
      /\ call.name = "addChartField1"
      /\ call.path = ""
      /\ call'.name = "addChartField1"
      /\ call'.itemId = call.itemId
      /\ call'.arg = call.arg
      /\ call'.ts - call.ts < SubThrottleWindowMs)
     => Len(ListOf(state', call'.itemId, "chart", "field1"))
          = Len(ListOf(state, call'.itemId, "chart", "field1"))]_vars


\* C33: the slides of a story have pairwise distinct ids, whatever add-slide
\* commands have run, two in the same millisecond included.
C33_SlideIdsUnique ==
  \A i \in DOMAIN state.items :
    HasList(state.items[i].data, "slides")
    => LET slides == state.items[i].data.slides.v
       IN  \A a, b \in DOMAIN slides : slides[a].id = slides[b].id => a = b


\* C34: when generateCharacterImage returns its success message, which ends
\* with " at " and the url of the image, the document it leaves has the item
\* the command was called for, and the image_url of that item is that url:
\* also when the item was deleted, or is no character, when the service answers.
C34_SuccessMeansSaved ==
  [][(/\ call'.n # call.n
      /\ call'.name = "generateCharacterImage"
      /\ call'.path = "success")
     => \E i \in DOMAIN state'.items :
          /\ state'.items[i].id = call'.itemId
          /\ IsStringField(state'.items[i].data, "image_url")
          /\ LET tail == <<" ", "a", "t", " ">> \o state'.items[i].data.image_url.v
                 said == call'.ret.v
             IN  /\ Len(said) >= Len(tail)
                 /\ SubSeq(said, Len(said) - Len(tail) + 1, Len(said)) = tail]_vars


\* C35: whenever a choose_item prompt is waiting, on a canvas with no items
\* too, the human has a button, Cancel or "Use item", whose click makes the
\* prompt respond and so ends the wait of the agent.
C35_PromptCanBeAnswered ==
  \A k \in DOMAIN inflight :
    inflight[k].kind = "choose_item"
    => ENABLED (/\ cancelClick(k) \/ useClick(k)
                /\ Len(inflight') < Len(inflight))


\* C36: in the shown viewer selectedStoryIndex is the index of a story,
\* currentSlideIndex is not negative, and when the selected story has slides
\* currentSlideIndex is the index of one of them: whatever next-slide,
\* previous-slide, next-story, previous-story and go-to-slide actions have
\* run, a step into a story with no slides included.
C36_IndicesValid ==
  player.shown
  => /\ player.selectedStoryIndex >= 0
     /\ player.selectedStoryIndex < Len(stories)
     /\ player.currentSlideIndex >= 0
     /\ slidesAt(stories, player.selectedStoryIndex) # <<>>
        => player.currentSlideIndex
             < Len(slidesAt(stories, player.selectedStoryIndex))


\* C37: in the shown viewer with auto-play off, the selected story and the
\* current slide change only in a step of explicit navigation: nothing that
\* was scheduled before, the end of a narration, the end of the audio or a
\* timer, changes them.
C37_ManualWhenAutoPlayOff ==
  [][(/\ player.shown
      /\ player'.shown
      /\ ~player.isAutoPlay
      /\ \/ player'.currentSlideIndex # player.currentSlideIndex
         \/ player'.selectedStoryIndex # player.selectedStoryIndex)
     => call'.name \in {"goToSlide", "nextSlide", "prevSlide",
                        "nextStory", "prevStory"}]_vars

====
